---- MODULE Spec2Model ----
(***************************************************************************)
(* A model of the webhook verifier of the Lettermint Python SDK            *)
(* (src/src/lettermint/webhook.py).                                        *)
(*                                                                         *)
(* Strings are sequences of characters.  A character is written as a       *)
(* one-letter TLA+ string; two characters that have no printable           *)
(* one-letter form are written by name: "NUL" is U+0000 and "U+00E9" is    *)
(* the letter e with acute accent.  Every string of the model is a         *)
(* sequence of Unicode scalar values, so str.encode() never fails.         *)
(***************************************************************************)
EXTENDS Integers, Sequences, FiniteSets

\* ------------------------------------------------------------------ bounds

\* The wall clock and the timestamps of signed headers range over 0..MaxTime.
MaxTime == 3

\* Verifiers are built with a tolerance in 0..MaxTolerance.
MaxTolerance == 1

\* -------------------------------------------------------------- characters

\* The characters of the model with their code points: the ASCII characters
\* the headers, payloads and secrets below are written with, U+0000 and one
\* character outside ASCII.
CodePoints ==
  << <<"NUL", 0>>,
     <<" ", 32>>, <<"+", 43>>, <<",", 44>>, <<"-", 45>>, <<".", 46>>, <<"0", 48>>,
     <<"1", 49>>, <<"2", 50>>, <<"3", 51>>, <<"4", 52>>, <<"5", 53>>, <<"6", 54>>,
     <<"7", 55>>, <<"8", 56>>, <<"9", 57>>, <<"=", 61>>, <<"A", 65>>, <<"B", 66>>,
     <<"C", 67>>, <<"D", 68>>, <<"E", 69>>, <<"F", 70>>, <<"T", 84>>, <<"[", 91>>,
     <<"]", 93>>, <<"_", 95>>, <<"a", 97>>, <<"b", 98>>, <<"c", 99>>, <<"d", 100>>,
     <<"e", 101>>, <<"f", 102>>, <<"g", 103>>, <<"j", 106>>, <<"k", 107>>, <<"t", 116>>,
     <<"v", 118>>, <<"x", 120>>, <<"z", 122>>, <<"{", 123>>, <<"}", 125>>,
     <<"U+00E9", 233>> >>

Chars == {CodePoints[i][1] : i \in 1..Len(CodePoints)}

\* ord(c): the code point of a character.
Ord ==
  [c \in Chars |->
     CodePoints[CHOOSE i \in 1..Len(CodePoints) : CodePoints[i][1] = c][2]]

\* c.isascii()
IsAscii(c) == Ord[c] < 128

\* str.encode(): the UTF-8 bytes of a string (one byte below U+0080, two
\* bytes from U+0080 to U+07FF).
RECURSIVE Encode(_)
Encode(s) ==
  IF s = <<>> THEN <<>>
  ELSE LET cp == Ord[Head(s)]
       IN (IF cp < 128 THEN <<cp>>
           ELSE <<192 + (cp \div 64), 128 + (cp % 64)>>) \o Encode(Tail(s))

HexDigits ==
  <<"0", "1", "2", "3", "4", "5", "6", "7", "8", "9", "a", "b", "c", "d", "e", "f">>

\* bytes.hex(): two lowercase hexadecimal digits per byte.
RECURSIVE Hex(_)
Hex(bytes) ==
  IF bytes = <<>> THEN <<>>
  ELSE <<HexDigits[(Head(bytes) \div 16) + 1], HexDigits[(Head(bytes) % 16) + 1]>>
       \o Hex(Tail(bytes))

\* ---------------------------------------------------------- str operations

\* s.split(sep) for a one-character separator: always at least one part.
Split(s, sep) ==
  LET RECURSIVE go(_, _, _)
      go(i, cur, acc) ==
        IF i > Len(s) THEN Append(acc, cur)
        ELSE IF s[i] = sep THEN go(i + 1, <<>>, Append(acc, cur))
        ELSE go(i + 1, Append(cur, s[i]), acc)
  IN go(1, <<>>, <<>>)

\* s.split(sep, 1): split at the first separator only; one part when s holds none.
SplitOnce(s, sep) ==
  IF \E i \in 1..Len(s) : s[i] = sep
  THEN LET i == CHOOSE j \in 1..Len(s) :
                  s[j] = sep /\ \A k \in 1..(j - 1) : s[k] # sep
       IN <<SubSeq(s, 1, i - 1), SubSeq(s, i + 1, Len(s))>>
  ELSE <<s>>

Digits == {"0", "1", "2", "3", "4", "5", "6", "7", "8", "9"}

DigitVal(c) == Ord[c] - 48

\* The whitespace int() strips; of the characters above only the space.
IsSpace(c) == c = " "

RECURSIVE LStrip(_)
LStrip(s) == IF s # <<>> /\ IsSpace(Head(s)) THEN LStrip(Tail(s)) ELSE s

RECURSIVE RStrip(_)
RStrip(s) ==
  IF s # <<>> /\ IsSpace(s[Len(s)]) THEN RStrip(SubSeq(s, 1, Len(s) - 1)) ELSE s

\* The digit part of an int() literal: digits, with single underscores
\* allowed between two digits.
IsDigitPart(d) ==
  /\ d # <<>>
  /\ \A i \in 1..Len(d) : d[i] \in Digits \cup {"_"}
  /\ d[1] \in Digits
  /\ d[Len(d)] \in Digits
  /\ \A i \in 1..(Len(d) - 1) : ~(d[i] = "_" /\ d[i + 1] = "_")

RECURSIVE DigitPartVal(_, _)
DigitPartVal(d, acc) ==
  IF d = <<>> THEN acc
  ELSE IF Head(d) = "_" THEN DigitPartVal(Tail(d), acc)
  ELSE DigitPartVal(Tail(d), 10 * acc + DigitVal(Head(d)))

\* int(s) in base 10: surrounding whitespace is stripped, one sign is allowed,
\* leading zeros are allowed.  ok = FALSE stands for ValueError.
PyInt(s) ==
  LET body == RStrip(LStrip(s))
      signed == body # <<>> /\ Head(body) \in {"+", "-"}
      digits == IF signed THEN Tail(body) ELSE body
  IN IF IsDigitPart(digits)
     THEN [ok |-> TRUE,
           val |-> IF signed /\ Head(body) = "-"
                   THEN 0 - DigitPartVal(digits, 0)
                   ELSE DigitPartVal(digits, 0)]
     ELSE [ok |-> FALSE, val |-> 0]

RECURSIVE NatStr(_)
NatStr(n) ==
  IF n < 10 THEN <<HexDigits[n + 1]>>
  ELSE Append(NatStr(n \div 10), HexDigits[(n % 10) + 1])

\* f"{n}" for an int: canonical decimal, "-" for a negative number.
IntStr(n) == IF n < 0 THEN <<"-">> \o NatStr(0 - n) ELSE NatStr(n)

\* The letters whose case str.lower() and str.upper() change, of those that
\* occur in the header names below: upper case, lower case.
Letters ==
  << <<"A", "a">>, <<"D", "d">>, <<"E", "e">>, <<"G", "g">>, <<"H", "h">>,
     <<"I", "i">>, <<"L", "l">>, <<"M", "m">>, <<"N", "n">>, <<"O", "o">>,
     <<"R", "r">>, <<"S", "s">>, <<"T", "t">>, <<"U", "u">>, <<"V", "v">>,
     <<"X", "x">>, <<"Y", "y">> >>

\* A bug: the string is left as it is.
LowerNot(s) == s

\* s.lower()
Lower(s) ==
  [i \in 1..Len(s) |->
     IF \E j \in 1..Len(Letters) : Letters[j][1] = s[i]
     THEN Letters[CHOOSE j \in 1..Len(Letters) : Letters[j][1] = s[i]][2]
     ELSE s[i]]

\* ---------------------------------------------------------------- json

\* The decoder below is json.loads on the strings written with these
\* characters: objects can only be empty (a key needs a double quote), numbers
\* are integers (no ".", "e" or "E"), and there are no literals.
PayloadChars == {"{", "}", "[", "]", ",", "-", " ", "x"} \cup Digits

JsonDict == [type |-> "dict", items |-> <<>>]

JsonList(elems) == [type |-> "list", items |-> elems]

JsonInt(n) == [type |-> "int", items |-> <<n>>]

\* The scanner's result: a value and the index after it, or a failure.
ScanFail == [ok |-> FALSE, value |-> JsonDict, next |-> 0]

ScanOk(v, n) == [ok |-> TRUE, value |-> v, next |-> n]

\* Skip JSON whitespace from index i.
RECURSIVE SkipWs(_, _)
SkipWs(s, i) == IF i <= Len(s) /\ s[i] = " " THEN SkipWs(s, i + 1) ELSE i

\* The index after the digits that start at index i.
RECURSIVE DigitsEnd(_, _)
DigitsEnd(s, i) == IF i <= Len(s) /\ s[i] \in Digits THEN DigitsEnd(s, i + 1) ELSE i

\* A JSON number at index i: "-"? ("0" | [1-9][0-9]*).
ScanNumber(s, i) ==
  LET neg == i <= Len(s) /\ s[i] = "-"
      d == IF neg THEN i + 1 ELSE i
      e == IF d <= Len(s) /\ s[d] = "0" THEN d + 1 ELSE DigitsEnd(s, d)
      n == DigitPartVal(SubSeq(s, d, e - 1), 0)
  IN IF e = d THEN ScanFail ELSE ScanOk(JsonInt(IF neg THEN 0 - n ELSE n), e)

RECURSIVE ScanValue(_, _)
RECURSIVE ScanElements(_, _, _)

\* The elements of an array after its first: ("," value)* "]".
ScanElements(s, i, acc) ==
  LET j == SkipWs(s, i)
  IN IF j > Len(s) THEN ScanFail
     ELSE IF s[j] = "]" THEN ScanOk(JsonList(acc), j + 1)
     ELSE IF s[j] = ","
          THEN LET v == ScanValue(s, SkipWs(s, j + 1))
               IN IF v.ok THEN ScanElements(s, v.next, Append(acc, v.value))
                  ELSE ScanFail
     ELSE ScanFail

\* One JSON value at index i.
ScanValue(s, i) ==
  IF i > Len(s) THEN ScanFail
  ELSE IF s[i] = "{"
       THEN LET j == SkipWs(s, i + 1)
            IN IF j <= Len(s) /\ s[j] = "}" THEN ScanOk(JsonDict, j + 1) ELSE ScanFail
  ELSE IF s[i] = "["
       THEN LET j == SkipWs(s, i + 1)
            IN IF j <= Len(s) /\ s[j] = "]" THEN ScanOk(JsonList(<<>>), j + 1)
               ELSE LET v == ScanValue(s, j)
                    IN IF v.ok THEN ScanElements(s, v.next, <<v.value>>) ELSE ScanFail
  ELSE ScanNumber(s, i)

\* json.loads(s): one value between optional whitespace, nothing after it.
\* ok = FALSE stands for json.JSONDecodeError.
JsonLoads(s) ==
  LET v == ScanValue(s, SkipWs(s, 1))
  IN IF v.ok /\ SkipWs(s, v.next) = Len(s) + 1
     THEN [ok |-> TRUE, value |-> v.value]
     ELSE [ok |-> FALSE, value |-> JsonDict]

\* ---------------------------------------------------------------- hmac

\* HMAC pads a key shorter than the 64-byte block of SHA-256 with zero bytes,
\* so two keys that differ only in trailing zero bytes are the same key.
\* (A key longer than the block is hashed first; the secrets of the model are
\* shorter.)
RECURSIVE KeyBlock(_)
KeyBlock(key) ==
  IF key # <<>> /\ key[Len(key)] = 0 THEN KeyBlock(SubSeq(key, 1, Len(key) - 1))
  ELSE key

\* hmac.new(key, msg, hashlib.sha256).hexdigest(): a string of lowercase
\* hexadecimal digits that the padded key and the message determine and that
\* no other padded key or message gives (collision resistance).  The byte 255,
\* which UTF-8 never produces, separates the two.
HmacSha256Hex(key, msg) == Hex(KeyBlock(key) \o <<255>> \o msg)

\* A bug: a comparison over zip(a, b), which stops at the end of the shorter
\* string.
CompareDigestZip(a, b) ==
  IF \A i \in 1..Len(a) : i <= Len(b) => a[i] = b[i] THEN "True" ELSE "False"

\* hmac.compare_digest(a, b) on two str: TypeError when either holds a
\* character outside ASCII, else whether they are equal.
CompareDigest(a, b) ==
  IF \E i \in 1..Len(a) : ~IsAscii(a[i]) THEN "TypeError"
  ELSE IF \E i \in 1..Len(b) : ~IsAscii(b[i]) THEN "TypeError"
  ELSE IF a = b THEN "True" ELSE "False"

\* ------------------------------------------------------------- webhook

DEFAULT_TOLERANCE == 300

\* Optional values: None, or a value.
NoInt == [some |-> FALSE, val |-> 0]

SomeInt(n) == [some |-> TRUE, val |-> n]

NoStr == [some |-> FALSE, val |-> <<>>]

SomeStr(s) == [some |-> TRUE, val |-> s]

\* A str object standing where an int or None is expected: the timestamp
\* argument of verify as the example handlers pass it.
StrObject(s) == [some |-> TRUE, str |-> s]

IsStrObject(timestamp) == "str" \in DOMAIN timestamp

\* timestamp is not None and timestamp != signature_timestamp, where
\* signature_timestamp is an int: a str object is never equal to an int.
TimestampDiffers(timestamp, signature_timestamp) ==
  /\ timestamp.some
  /\ IsStrObject(timestamp) \/ timestamp.val # signature_timestamp

\* A bug: the first "t" and the first "v1" part are kept, later ones ignored.
RECURSIVE ParsePartsFirstWins(_, _, _, _)
ParsePartsFirstWins(parts, i, parsed_timestamp, parsed_signature) ==
  IF i > Len(parts)
  THEN [timestamp |-> parsed_timestamp, signature |-> parsed_signature]
  ELSE LET key_value == SplitOnce(parts[i], "=")
           n == PyInt(key_value[2])
       IN IF Len(key_value) = 2 /\ key_value[1] = <<"t">> /\ n.ok
             /\ ~parsed_timestamp.some
          THEN ParsePartsFirstWins(parts, i + 1, SomeInt(n.val), parsed_signature)
          ELSE IF Len(key_value) = 2 /\ key_value[1] = <<"v", "1">>
                  /\ ~parsed_signature.some
          THEN ParsePartsFirstWins(parts, i + 1, parsed_timestamp,
                                   SomeStr(key_value[2]))
          ELSE ParsePartsFirstWins(parts, i + 1, parsed_timestamp, parsed_signature)

\* The loop of Webhook._parse_signature over the parts of the header, from
\* part i on: a part without "=" is skipped, a "t" part whose value int()
\* rejects is skipped, a later "t" or "v1" part replaces an earlier one.
RECURSIVE ParseParts(_, _, _, _)
ParseParts(parts, i, parsed_timestamp, parsed_signature) ==
  IF i > Len(parts)
  THEN [timestamp |-> parsed_timestamp, signature |-> parsed_signature]
  ELSE LET key_value == SplitOnce(parts[i], "=")
       IN IF Len(key_value) # 2
          THEN ParseParts(parts, i + 1, parsed_timestamp, parsed_signature)
          ELSE IF key_value[1] = <<"t">>
               THEN LET n == PyInt(key_value[2])
                    IN IF n.ok
                       THEN ParseParts(parts, i + 1, SomeInt(n.val), parsed_signature)
                       ELSE ParseParts(parts, i + 1, parsed_timestamp, parsed_signature)
          ELSE IF key_value[1] = <<"v", "1">>
               THEN ParseParts(parts, i + 1, parsed_timestamp, SomeStr(key_value[2]))
          ELSE ParseParts(parts, i + 1, parsed_timestamp, parsed_signature)

\* A bug: the header is refused only when both t and v1 are missing.
ParseSignatureBothMissing(signature) ==
  LET p == ParseParts(Split(signature, ","), 1, NoInt, NoStr)
  IN IF ~p.timestamp.some /\ ~p.signature.some
     THEN [ok |-> FALSE, timestamp |-> 0, signature |-> <<>>]
     ELSE [ok |-> TRUE, timestamp |-> p.timestamp.val, signature |-> p.signature.val]

\* A bug: a header that is not exactly two parts is refused.
ParseSignatureStrict(signature) ==
  LET p == ParseParts(Split(signature, ","), 1, NoInt, NoStr)
  IN IF ~p.timestamp.some \/ ~p.signature.some \/ Len(Split(signature, ",")) # 2
     THEN [ok |-> FALSE, timestamp |-> 0, signature |-> <<>>]
     ELSE [ok |-> TRUE, timestamp |-> p.timestamp.val, signature |-> p.signature.val]

\* Webhook._parse_signature: ok = FALSE stands for the WebhookVerificationError
\* "Invalid signature format".
ParseSignature(signature) ==
  LET p == ParseParts(Split(signature, ","), 1, NoInt, NoStr)
  IN IF ~p.timestamp.some \/ ~p.signature.some
     THEN [ok |-> FALSE, timestamp |-> 0, signature |-> <<>>]
     ELSE [ok |-> TRUE, timestamp |-> p.timestamp.val, signature |-> p.signature.val]

\* A bug: the difference without abs(), so a timestamp in the future is
\* never refused.
DifferenceSigned(current_time, timestamp) == current_time - timestamp

\* abs(current_time - timestamp)
Difference(current_time, timestamp) ==
  IF current_time >= timestamp THEN current_time - timestamp
  ELSE timestamp - current_time

\* A bug: a window one second too wide.
OutsideToleranceLoose(difference, tolerance) == difference > tolerance + 1

\* The test of Webhook._validate_timestamp: TRUE when the timestamp is refused.
OutsideTolerance(difference, tolerance) == difference > tolerance

\* A bug: the preimage without the "." between timestamp and payload.
SignedContentNoDot(signature_timestamp, payload) ==
  IntStr(signature_timestamp) \o payload

\* signed_content = f"{signature_timestamp}.{payload}"
SignedContent(signature_timestamp, payload) ==
  IntStr(signature_timestamp) \o <<".">> \o payload

\* The digest verify computes for a timestamp and a payload under a secret.
ComputedSignature(secret, signature_timestamp, payload) ==
  HmacSha256Hex(Encode(secret), Encode(SignedContent(signature_timestamp, payload)))

\* The messages of the errors verify raises.
MsgFormat == "Invalid signature format. Expected format: t={timestamp},v1={signature}"

MsgMismatch == "Timestamp mismatch between signature and delivery headers"

MsgTolerance == "Timestamp outside tolerance window"

MsgSignature == "Signature verification failed"

MsgDecode == "Failed to decode webhook payload"

MsgSecret == "Webhook secret cannot be empty"

MsgCompare == "comparing strings with non-ASCII characters is not supported"

\* What a call gave its caller: nothing yet, a returned value, or an exception
\* (its class, its message and the numbers its message carries).
NoResult == [kind |-> "none", exc |-> "", msg |-> "", args |-> <<>>, value |-> JsonDict]

Returned(v) == [kind |-> "return", exc |-> "", msg |-> "", args |-> <<>>, value |-> v]

Raised(e, m, a) == [kind |-> "raise", exc |-> e, msg |-> m, args |-> a, value |-> JsonDict]

\* A bug: the payload is decoded before the signatures are compared.
AfterDecodeFirst(step) ==
  CASE step = "parse" -> "cross"
    [] step = "cross" -> "validate"
    [] step = "validate" -> "decode"
    [] step = "decode" -> "compare"
    [] step = "compare" -> "done"

\* A bug: the signatures are compared before the timestamp is validated.
AfterCompareFirst(step) ==
  CASE step = "parse" -> "cross"
    [] step = "cross" -> "compare"
    [] step = "compare" -> "validate"
    [] step = "validate" -> "decode"
    [] step = "decode" -> "done"

\* A bug: the timestamp is validated before it is cross-checked.
AfterValidateFirst(step) ==
  CASE step = "parse" -> "validate"
    [] step = "validate" -> "cross"
    [] step = "cross" -> "compare"
    [] step = "compare" -> "decode"
    [] step = "decode" -> "done"

\* The steps of Webhook.verify in the order of its statements: the step that
\* follows a step that did not raise.
After(step) ==
  CASE step = "parse" -> "cross"
    [] step = "cross" -> "validate"
    [] step = "validate" -> "compare"
    [] step = "compare" -> "decode"
    [] step = "decode" -> "done"

\* Webhook.verify as a function of its arguments, the verifier's fields and the
\* clock value it reads: what the call gives its caller.
VerifyResult(secret, tolerance, payload, signature, timestamp, current_time) ==
  LET parsed == ParseSignature(signature)
      difference == Difference(current_time, parsed.timestamp)
      equal == CompareDigest(ComputedSignature(secret, parsed.timestamp, payload),
                             parsed.signature)
      data == JsonLoads(payload)
  IN IF ~parsed.ok THEN Raised("WebhookVerificationError", MsgFormat, <<>>)
     ELSE IF TimestampDiffers(timestamp, parsed.timestamp)
          THEN Raised("WebhookVerificationError", MsgMismatch, <<>>)
     ELSE IF OutsideTolerance(difference, tolerance)
          THEN Raised("TimestampToleranceError", MsgTolerance, <<difference, tolerance>>)
     ELSE IF equal = "TypeError" THEN Raised("TypeError", MsgCompare, <<>>)
     ELSE IF equal = "False" THEN Raised("InvalidSignatureError", MsgSignature, <<>>)
     ELSE IF ~data.ok THEN Raised("JsonDecodeError", MsgDecode, <<>>)
     ELSE Returned(data.value)

\* The names of the two headers, and what the messages call them.
SIGNATURE_HEADER ==
  <<"X", "-", "L", "e", "t", "t", "e", "r", "m", "i", "n", "t", "-",
    "S", "i", "g", "n", "a", "t", "u", "r", "e">>

DELIVERY_HEADER ==
  <<"X", "-", "L", "e", "t", "t", "e", "r", "m", "i", "n", "t", "-",
    "D", "e", "l", "i", "v", "e", "r", "y">>

\* The messages of the errors verify_headers raises itself.
MsgMissingSignature == "Missing signature header: X-Lettermint-Signature"

\* A bug: the message for the delivery header names the signature header.
MsgMissingDeliveryWrongName == "Missing delivery header: X-Lettermint-Signature"

MsgMissingDelivery == "Missing delivery header: X-Lettermint-Delivery"

MsgDelivery == "Invalid timestamp format in X-Lettermint-Delivery header"

\* A header mapping is a dict in the order of its items: a sequence of
\* <<key, value>> pairs with different keys.
\* Webhook._normalize_headers: the dict comprehension, item by item; an item
\* whose lowered key is there already replaces the value.
RECURSIVE NormalizeHeaders(_)
NormalizeHeaders(headers) ==
  IF headers = <<>> THEN <<>>
  ELSE LET n == Len(headers)
           before == NormalizeHeaders(SubSeq(headers, 1, n - 1))
           key == Lower(headers[n][1])
       IN IF \E i \in 1..Len(before) : before[i][1] = key
          THEN [i \in 1..Len(before) |->
                  IF before[i][1] = key THEN <<key, headers[n][2]>> ELSE before[i]]
          ELSE Append(before, <<key, headers[n][2]>>)

\* A bug: the header is looked up under its name as written, not lowered.
HeaderGetExact(normalized_headers, key) ==
  IF \E i \in 1..Len(normalized_headers) : normalized_headers[i][1] = key
  THEN SomeStr(normalized_headers[
         CHOOSE i \in 1..Len(normalized_headers) : normalized_headers[i][1] = key][2])
  ELSE NoStr

\* normalized_headers.get(key.lower()): the value, or None.
HeaderGet(normalized_headers, key) ==
  IF \E i \in 1..Len(normalized_headers) : normalized_headers[i][1] = Lower(key)
  THEN SomeStr(normalized_headers[
         CHOOSE i \in 1..Len(normalized_headers) :
           normalized_headers[i][1] = Lower(key)][2])
  ELSE NoStr

\* Webhook.verify_headers as a function of its arguments, the verifier's
\* fields and the clock value the verify it delegates to reads.
VerifyHeadersResult(secret, tolerance, headers, payload, current_time) ==
  LET normalized_headers == NormalizeHeaders(headers)
      signature == HeaderGet(normalized_headers, SIGNATURE_HEADER)
      timestamp_str == HeaderGet(normalized_headers, DELIVERY_HEADER)
      timestamp == PyInt(timestamp_str.val)
  IN IF ~signature.some
     THEN Raised("WebhookVerificationError", MsgMissingSignature, <<>>)
     ELSE IF ~timestamp_str.some
          THEN Raised("WebhookVerificationError", MsgMissingDelivery, <<>>)
     ELSE IF ~timestamp.ok
          THEN Raised("WebhookVerificationError", MsgDelivery, <<>>)
     ELSE VerifyResult(secret, tolerance, payload, signature.val,
                       SomeInt(timestamp.val), current_time)

\* A bug: a secret is refused only when it is None, so "" is accepted.
EmptySecretNever(secret) == FALSE

\* The test of Webhook.__init__: "not secret", TRUE for the empty string.
EmptySecret(secret) == secret = <<>>

\* A bug: the static method does not pass its tolerance on.
ToleranceArgumentIgnored(tolerance) == DEFAULT_TOLERANCE

\* The tolerance parameter of the static method: the argument, or its default.
ToleranceArgument(tolerance) ==
  IF tolerance.some THEN tolerance.val ELSE DEFAULT_TOLERANCE

\* -------------------------------------------------------------- inputs

Times == 0..MaxTime

\* The secrets verifiers are built with: two that differ only in a trailing
\* U+0000.
Secrets == {<<"k">>, <<"k", "NUL">>}

\* The secrets the sender signs with: those, and a third.
SignSecrets == Secrets \cup {<<"j">>}

\* The tolerance argument of a constructor call: omitted, or a number.
Tolerances == {NoInt} \cup {SomeInt(n) : n \in 0..MaxTolerance}

\* Request bodies: a JSON object, a JSON number, and two that are not JSON.
Payloads == {<<"{", "}">>, <<"1">>, <<"{">>, <<>>}

\* The digest the sender computes: HMAC-SHA256 of "{ts}.{payload}" under the
\* secret, in lowercase hexadecimal.
SenderDigest(secret, ts, payload) ==
  HmacSha256Hex(Encode(secret), Encode(IntStr(ts) \o <<".">> \o payload))

\* The header the sender makes for a payload: "t={ts},v1={hexdigest}".
SignedHeader(secret, ts, payload) ==
  <<"t", "=">> \o IntStr(ts) \o <<",", "v", "1", "=">> \o SenderDigest(secret, ts, payload)

SignedHeaders ==
  {SignedHeader(s, ts, p) : s \in SignSecrets, ts \in Times, p \in Payloads}

\* str.upper() on a string of hexadecimal digits.
UpperHex(s) ==
  [i \in 1..Len(s) |->
     CASE s[i] = "a" -> "A" [] s[i] = "b" -> "B" [] s[i] = "c" -> "C"
       [] s[i] = "d" -> "D" [] s[i] = "e" -> "E" [] s[i] = "f" -> "F"
       [] OTHER -> s[i]]

\* Wrong v1 values made from a digest: empty, truncated, upper case, not
\* hexadecimal, not ASCII.
WrongDigests(d) ==
  {<<>>, SubSeq(d, 1, Len(d) - 1), UpperHex(d), <<"z", "z">>, <<"U+00E9">>}

\* Headers with a well-formed t and a wrong v1.
ForgedHeaders ==
  UNION {{<<"t", "=">> \o IntStr(ts) \o <<",", "v", "1", "=">> \o v :
            v \in WrongDigests(SenderDigest(<<"k">>, ts, <<"{", "}">>))} :
         ts \in Times}

\* Headers without a usable t or without a v1.
MalformedHeaders ==
  { <<>>,
    <<"g">>,
    <<"v", "1", "=", "a", "b">>,
    <<"t", "=", "1">>,
    <<"t", "=", "x", ",", "v", "1", "=", "a", "b">>,
    <<"t", "=", ",", "v", "1", "=", "a", "b">>,
    <<"t", "=", "1", ",", "v", "1">>,
    <<"T", "=", "1", ",", "v", "1", "=", "a", "b">>,
    <<"t", "=", "1", ".", "0", ",", "v", "1", "=", "a", "b">> }

\* Tokens _parse_signature has no use for: one without "=", one with another
\* key.
JunkTokens == { <<"g">>, <<" ", "t", "=", "9">> }

\* Headers with such a token before, between and after the t and v1 tokens of
\* a signed header, and beside the only token of a header without t.
JunkHeaders ==
  UNION {LET t == <<"t", "=", "1">>
             v1 == <<"v", "1", "=">> \o SenderDigest(<<"k">>, 1, <<"{", "}">>)
         IN { junk \o <<",">> \o t \o <<",">> \o v1,
              t \o <<",">> \o junk \o <<",">> \o v1,
              t \o <<",">> \o v1 \o <<",">> \o junk,
              junk \o <<",">> \o v1 } :
         junk \in JunkTokens}

\* The signature header values verify is called with.
\* Headers with more than one t or v1 token, made from the header signed for
\* timestamp 1 and payload {}: integer and non-integer t tokens in both
\* orders, and a right and a wrong v1 in both orders.
DuplicateHeaders ==
  LET good == <<"v", "1", "=">> \o SenderDigest(<<"k">>, 1, <<"{", "}">>)
      bad == <<"v", "1", "=", "a", "b">>
      t1 == <<"t", "=", "1">>
      t2 == <<"t", "=", "2">>
      tx == <<"t", "=", "x">>
  IN { t2 \o <<",">> \o t1 \o <<",">> \o tx \o <<",">> \o bad \o <<",">> \o good,
       tx \o <<",">> \o t1 \o <<",">> \o good \o <<",">> \o bad,
       t1 \o <<",">> \o t2 \o <<",">> \o good }

\* The header signed for timestamp 1 and payload {} with its t written in
\* other ways int() reads as 1: a leading zero, a plus sign, a leading space.
NonCanonicalHeaders ==
  { <<"t", "=">> \o text \o <<",", "v", "1", "=">>
      \o SenderDigest(<<"k">>, 1, <<"{", "}">>) :
    text \in {<<"0", "1">>, <<"+", "1">>, <<" ", "1">>} }

Signatures ==
  SignedHeaders \cup ForgedHeaders \cup MalformedHeaders \cup JunkHeaders
    \cup DuplicateHeaders \cup NonCanonicalHeaders

\* The timestamp argument of verify: omitted (None), or an int.
Timestamps == {NoInt} \cup {SomeInt(ts) : ts \in Times}

\* s.upper()
Upper(s) ==
  [i \in 1..Len(s) |->
     IF \E j \in 1..Len(Letters) : Letters[j][2] = s[i]
     THEN Letters[CHOOSE j \in 1..Len(Letters) : Letters[j][2] = s[i]][1]
     ELSE s[i]]

\* The ways a caller writes a header name: as documented, lowered, in capitals.
Recase(style, name) ==
  CASE style = "Title" -> name
    [] style = "lower" -> Lower(name)
    [] style = "UPPER" -> Upper(name)

Styles == {"Title", "lower", "UPPER"}

\* Values of the signature header: signed for a JSON payload, signed for a
\* payload that is not JSON, with an empty v1, empty, without t and v1.
HeaderSignatures ==
  { SignedHeader(<<"k">>, 1, <<"{", "}">>),
    SignedHeader(<<"k">>, 2, <<"{">>),
    <<"t", "=", "1", ",", "v", "1", "=">>,
    <<>>,
    <<"g">> }

\* Values of the delivery header: integers as int() reads them, and strings
\* int() refuses.
DeliveryValues == { <<"1">>, <<" ", "2">>, <<"x">>, <<>> }

HOST == <<"H", "o", "s", "t">>

\* Header mappings with both headers, the names written alike.
BothHeaders ==
  { << <<Recase(st, SIGNATURE_HEADER), sv>>, <<Recase(st, DELIVERY_HEADER), dv>> >> :
      st \in Styles, sv \in HeaderSignatures, dv \in DeliveryValues }

\* Header mappings without the signature header, without the delivery header,
\* and without both.
MissingHeaders ==
  { <<>>, << <<HOST, <<"h">>>> >> }
  \cup { << <<Recase(st, DELIVERY_HEADER), <<"1">>>> >> : st \in Styles }
  \cup { << <<HOST, <<"h">>>>,
           <<Recase(st, SIGNATURE_HEADER), SignedHeader(<<"k">>, 1, <<"{", "}">>)>> >> :
         st \in Styles }

\* Header mappings with the signature header twice, under two spellings.
TwiceHeaders ==
  { << <<SIGNATURE_HEADER, SignedHeader(<<"k">>, 1, <<"{", "}">>)>>,
       <<Lower(SIGNATURE_HEADER), <<"g">>>>,
       <<DELIVERY_HEADER, <<"1">>>> >>,
    << <<Upper(SIGNATURE_HEADER), SignedHeader(<<"k">>, 1, <<"{", "}">>)>>,
       <<SIGNATURE_HEADER, <<"g">>>>,
       <<DELIVERY_HEADER, <<"1">>>> >>,
    << <<Upper(SIGNATURE_HEADER), <<"g">>>>,
       <<DELIVERY_HEADER, <<"1">>>>,
       <<SIGNATURE_HEADER, SignedHeader(<<"k">>, 1, <<"{", "}">>)>> >>,
    << <<Lower(SIGNATURE_HEADER), <<"g">>>>,
       <<Lower(DELIVERY_HEADER), <<"1">>>>,
       <<Upper(SIGNATURE_HEADER), SignedHeader(<<"k">>, 1, <<"{", "}">>)>> >> }

\* The header mappings verify_headers is called with.
Headers == BothHeaders \cup MissingHeaders \cup TwiceHeaders

\* The arguments of the static method: a secret that may be empty, headers
\* signed with the secret "k", an empty header and one with a v1 outside ASCII.
StaticSecrets == {<<>>, <<"k">>}

\* What the example handlers read from the timestamp header: the text of a
\* number, the same number written with a leading zero, and the "" default of
\* request.headers.get for an absent header.
HandlerTimestamps == {<<"1">>, <<"0", "1">>, <<>>}

StaticSignatures ==
  { SignedHeader(<<"k">>, ts, p) : ts \in Times, p \in {<<"{", "}">>, <<"{">>} }
  \cup { <<>>, <<"t", "=", "1", ",", "v", "1", "=", "U+00E9">> }

StaticTimestamps == {NoInt, SomeInt(1)}

\* --------------------------------------------------------------- state

VARIABLES
  webhook,   \* the verifier: whether it is built, self._secret, self._tolerance
  now,       \* int(time.time())
  pc,        \* where the call of verify in progress stands
  args,      \* its arguments: payload, signature, timestamp
  locals,    \* its local variables
  result,    \* what the last finished call gave its caller
  suspended, \* the call of another caller that is not running now
  client,    \* the Lettermint or AsyncLettermint object and its _email endpoint
  chains,    \* the build-and-send chains on the client, and what each has in flight
  active     \* the chain that is running, 0 when none is

\* The variables of the sending side (the client's email endpoint and the
\* chains that build and send on it) and those of the webhook verifier.
emailVars == <<client, chains, active>>

webhookVars == <<webhook, now, pc, args, locals, result, suspended>>

vars == <<webhook, now, pc, args, locals, result, suspended, client, chains, active>>

\* {} and d[k] = v of a dict; the keys of the model's dicts are TLA+ strings.
EmptyDict == <<>>

SetItem(d, k, v) == [x \in DOMAIN d \cup {k} |-> IF x = k THEN v ELSE d[x]]

\* The chains of one program on one client.
Chains == {1, 2}

\* self._email of the client before the first client.email, and the endpoint
\* EmailEndpoint(self._client) or AsyncEmailEndpoint(self._client) makes.
NoEndpoint == [created |-> FALSE, payload |-> EmptyDict, idempotency_key |-> NoStr]

NewEndpoint == [created |-> TRUE, payload |-> EmptyDict, idempotency_key |-> NoStr]

NoHeaders == [some |-> FALSE, val |-> EmptyDict]

NoRequest == [path |-> <<>>, json |-> EmptyDict, headers |-> NoHeaders]

\* A chain that has not begun: pc is where it stands, calls the builder calls
\* it has made, own_payload and own_key what its own calls have set, request
\* the POST it makes, answer what the transport did with it, response what
\* send gave the chain.
NoChain ==
  [pc |-> "idle", calls |-> 0, own_payload |-> EmptyDict, own_key |-> NoStr,
   request |-> NoRequest, answer |-> [timeout |-> FALSE], response |-> [kind |-> "none"]]

\* No client yet.
NoClient == [built |-> FALSE, async |-> FALSE, email |-> NoEndpoint]

EmailInit ==
  /\ client = NoClient
  /\ chains = [c \in Chains |-> NoChain]
  /\ active = 0

NoWebhook == [built |-> FALSE, secret |-> <<>>, tolerance |-> 0]

\* The arguments of the call in progress: which method was called, the
\* arguments of verify (for verify_headers, those it hands to verify), the
\* headers of verify_headers, the secret and tolerance of the constructor and
\* of the static method.
NoArgs ==
  [call |-> "none", payload |-> <<>>, signature |-> <<>>, timestamp |-> NoInt,
   headers |-> <<>>, secret |-> <<>>, tolerance |-> NoInt]

NoLocals ==
  [signature_timestamp |-> 0, expected_signature |-> <<>>, current_time |-> NoInt]

\* The frame of a caller that is not in a call.
NoFrame == [pc |-> "idle", args |-> NoArgs, locals |-> NoLocals, result |-> NoResult]

Init ==
  /\ webhook = NoWebhook
  /\ now \in Times
  /\ pc = "idle"
  /\ args = NoArgs
  /\ locals = NoLocals
  /\ result = NoResult
  /\ suspended = NoFrame
  /\ EmailInit

\* The wall clock advances.
Tick ==
  /\ now < MaxTime
  /\ now' = now + 1
  /\ UNCHANGED <<webhook, pc, args, locals, result, suspended, emailVars>>

\* A bug: the constructor drops its tolerance argument.
WebhookInitDefaultOnly(secret, tolerance) ==
  /\ pc = "idle"
  /\ ~webhook.built
  /\ IF EmptySecret(secret)
     THEN /\ result' = Raised("ValueError", MsgSecret, <<>>)
          /\ UNCHANGED webhook
     ELSE /\ webhook' = [built |-> TRUE, secret |-> secret,
                         tolerance |-> DEFAULT_TOLERANCE]
          /\ result' = NoResult
  /\ args' = [NoArgs EXCEPT !.call = "__init__", !.secret = secret,
                            !.tolerance = tolerance]
  /\ pc' = "ended"
  /\ UNCHANGED <<now, locals, suspended, emailVars>>

\* Webhook.__init__(secret, tolerance)
WebhookInit(secret, tolerance) ==
  /\ pc = "idle"
  /\ ~webhook.built
  /\ IF EmptySecret(secret)
     THEN /\ result' = Raised("ValueError", MsgSecret, <<>>)
          /\ UNCHANGED webhook
     ELSE /\ webhook' = [built |-> TRUE, secret |-> secret,
                         tolerance |-> IF tolerance.some THEN tolerance.val
                                       ELSE DEFAULT_TOLERANCE]
          /\ result' = NoResult
  /\ args' = [NoArgs EXCEPT !.call = "__init__", !.secret = secret,
                            !.tolerance = tolerance]
  /\ pc' = "ended"
  /\ UNCHANGED <<now, locals, suspended, emailVars>>

\* A caller enters webhook.verify(payload, signature, timestamp).
Verify(payload, signature, timestamp) ==
  /\ pc = "idle"
  /\ webhook.built
  /\ args' = [NoArgs EXCEPT !.call = "verify", !.payload = payload,
                            !.signature = signature, !.timestamp = timestamp]
  /\ locals' = NoLocals
  /\ result' = NoResult
  /\ pc' = "parse"
  /\ UNCHANGED <<webhook, now, suspended, emailVars>>

\* The call ends with an exception.
Raise(e, m, a) ==
  /\ result' = Raised(e, m, a)
  /\ pc' = "done"

\* A bug: the clock is read when the call begins, before the header is parsed.
VerifyParseReadsClock ==
  /\ pc = "parse"
  /\ LET parsed == ParseSignature(args.signature)
     IN IF ~parsed.ok
        THEN /\ Raise("WebhookVerificationError", MsgFormat, <<>>)
             /\ locals' = [locals EXCEPT !.current_time = SomeInt(now)]
        ELSE /\ locals' = [locals EXCEPT !.signature_timestamp = parsed.timestamp,
                                         !.expected_signature = parsed.signature,
                                         !.current_time = SomeInt(now)]
             /\ pc' = After("parse")
             /\ UNCHANGED result
  /\ UNCHANGED <<webhook, now, args, suspended, emailVars>>

\* parsed = self._parse_signature(signature)
VerifyParse ==
  /\ pc = "parse"
  /\ LET parsed == ParseSignature(args.signature)
     IN IF ~parsed.ok
        THEN /\ Raise("WebhookVerificationError", MsgFormat, <<>>)
             /\ UNCHANGED locals
        ELSE /\ locals' = [locals EXCEPT !.signature_timestamp = parsed.timestamp,
                                         !.expected_signature = parsed.signature]
             /\ pc' = After("parse")
             /\ UNCHANGED result
  /\ UNCHANGED <<webhook, now, args, suspended, emailVars>>

\* if timestamp is not None and timestamp != signature_timestamp: raise
VerifyCross ==
  /\ pc = "cross"
  /\ IF TimestampDiffers(args.timestamp, locals.signature_timestamp)
     THEN Raise("WebhookVerificationError", MsgMismatch, <<>>)
     ELSE pc' = After("cross") /\ UNCHANGED result
  /\ UNCHANGED <<webhook, now, args, locals, suspended, emailVars>>

\* A bug: the difference found is kept on the verifier, as its tolerance.
VerifyValidateStores ==
  /\ pc = "validate"
  /\ LET difference == Difference(now, locals.signature_timestamp)
     IN /\ IF OutsideTolerance(difference, webhook.tolerance)
           THEN Raise("TimestampToleranceError", MsgTolerance,
                      <<difference, webhook.tolerance>>)
           ELSE pc' = After("validate") /\ UNCHANGED result
        /\ webhook' = [webhook EXCEPT !.tolerance = difference]
  /\ locals' = [locals EXCEPT !.current_time = SomeInt(now)]
  /\ UNCHANGED <<now, args, suspended, emailVars>>

\* self._validate_timestamp(signature_timestamp): the one read of the clock.
VerifyValidate ==
  /\ pc = "validate"
  /\ LET difference == Difference(now, locals.signature_timestamp)
     IN IF OutsideTolerance(difference, webhook.tolerance)
        THEN Raise("TimestampToleranceError", MsgTolerance,
                   <<difference, webhook.tolerance>>)
        ELSE pc' = After("validate") /\ UNCHANGED result
  /\ locals' = [locals EXCEPT !.current_time = SomeInt(now)]
  /\ UNCHANGED <<webhook, now, args, suspended, emailVars>>

\* The text of the t token the parsed timestamp was read from.
RawTimestampText(signature) ==
  LET parts == Split(signature, ",")
      places == {i \in 1..Len(parts) :
                   LET key_value == SplitOnce(parts[i], "=")
                   IN /\ Len(key_value) = 2
                      /\ key_value[1] = <<"t">>
                      /\ PyInt(key_value[2]).ok}
      last == CHOOSE i \in places : \A j \in places : j <= i
  IN SplitOnce(parts[last], "=")[2]

\* A bug: the signed content is made from the text of the t token as it
\* stands in the header, not from the integer parsed from it.
VerifyCompareRawText ==
  /\ pc = "compare"
  /\ LET computed_signature ==
           HmacSha256Hex(Encode(webhook.secret),
                         Encode(RawTimestampText(args.signature) \o <<".">>
                                  \o args.payload))
         equal == CompareDigest(computed_signature, locals.expected_signature)
     IN IF equal = "TypeError" THEN Raise("TypeError", MsgCompare, <<>>)
        ELSE IF equal = "False" THEN Raise("InvalidSignatureError", MsgSignature, <<>>)
        ELSE pc' = After("compare") /\ UNCHANGED result
  /\ UNCHANGED <<webhook, now, args, locals, suspended, emailVars>>

\* computed_signature = hmac.new(...).hexdigest(); hmac.compare_digest(...)
VerifyCompare ==
  /\ pc = "compare"
  /\ LET computed_signature ==
           ComputedSignature(webhook.secret, locals.signature_timestamp, args.payload)
         equal == CompareDigest(computed_signature, locals.expected_signature)
     IN IF equal = "TypeError" THEN Raise("TypeError", MsgCompare, <<>>)
        ELSE IF equal = "False" THEN Raise("InvalidSignatureError", MsgSignature, <<>>)
        ELSE pc' = After("compare") /\ UNCHANGED result
  /\ UNCHANGED <<webhook, now, args, locals, suspended, emailVars>>

\* data = json.loads(payload); return data
VerifyDecode ==
  /\ pc = "decode"
  /\ LET data == JsonLoads(args.payload)
     IN IF ~data.ok THEN Raise("JsonDecodeError", MsgDecode, <<>>)
        ELSE result' = Returned(data.value) /\ pc' = After("decode")
  /\ UNCHANGED <<webhook, now, args, locals, suspended, emailVars>>

\* The caller has the result of verify; the call's frame is gone, and with it
\* the verifier the static method built for the call.
VerifyDone ==
  /\ pc = "done"
  /\ pc' = "idle"
  /\ args' = NoArgs
  /\ locals' = NoLocals
  /\ result' = NoResult
  /\ webhook' = IF args.call = "verify_signature" THEN NoWebhook ELSE webhook
  /\ UNCHANGED <<now, suspended, emailVars>>

\* An entry point ends with an exception before verify is called.
RaiseEarly(e, m, a) ==
  /\ result' = Raised(e, m, a)
  /\ pc' = "ended"

\* A bug: the delivery value is converted before it is tested for None.
AfterHeadersIntFirst(step) ==
  CASE step = "missing_signature" -> "delivery_int"
    [] step = "delivery_int" -> "missing_delivery"
    [] step = "missing_delivery" -> "parse"

\* The steps of Webhook.verify_headers in the order of its statements: the
\* step that follows a step that did not raise; the last one enters verify.
AfterHeaders(step) ==
  CASE step = "missing_signature" -> "missing_delivery"
    [] step = "missing_delivery" -> "delivery_int"
    [] step = "delivery_int" -> "parse"

\* A caller enters webhook.verify_headers(headers, payload).
VerifyHeaders(headers, payload) ==
  /\ pc = "idle"
  /\ webhook.built
  /\ args' = [NoArgs EXCEPT !.call = "verify_headers", !.headers = headers,
                            !.payload = payload]
  /\ locals' = NoLocals
  /\ result' = NoResult
  /\ pc' = "missing_signature"
  /\ UNCHANGED <<webhook, now, suspended, emailVars>>

\* signature = normalized_headers.get(...); if signature is None: raise
VerifyHeadersSignature ==
  /\ pc = "missing_signature"
  /\ IF ~HeaderGet(NormalizeHeaders(args.headers), SIGNATURE_HEADER).some
     THEN RaiseEarly("WebhookVerificationError", MsgMissingSignature, <<>>)
     ELSE pc' = AfterHeaders("missing_signature") /\ UNCHANGED result
  /\ UNCHANGED <<webhook, now, args, locals, suspended, emailVars>>

\* timestamp_str = normalized_headers.get(...); if timestamp_str is None: raise
VerifyHeadersDelivery ==
  /\ pc = "missing_delivery"
  /\ IF ~HeaderGet(NormalizeHeaders(args.headers), DELIVERY_HEADER).some
     THEN RaiseEarly("WebhookVerificationError", MsgMissingDelivery, <<>>)
     ELSE pc' = AfterHeaders("missing_delivery") /\ UNCHANGED result
  /\ UNCHANGED <<webhook, now, args, locals, suspended, emailVars>>

\* A bug: verify is called without the delivery timestamp.
VerifyHeadersIntNoCross ==
  /\ pc = "delivery_int"
  /\ LET normalized_headers == NormalizeHeaders(args.headers)
         signature == HeaderGet(normalized_headers, SIGNATURE_HEADER)
         timestamp_str == HeaderGet(normalized_headers, DELIVERY_HEADER)
         timestamp == PyInt(timestamp_str.val)
     IN IF ~timestamp.ok
        THEN /\ RaiseEarly("WebhookVerificationError", MsgDelivery, <<>>)
             /\ UNCHANGED args
        ELSE /\ args' = [args EXCEPT !.signature = signature.val]
             /\ pc' = AfterHeaders("delivery_int")
             /\ UNCHANGED result
  /\ UNCHANGED <<webhook, now, locals, suspended, emailVars>>

\* timestamp = int(timestamp_str); return self.verify(payload, signature, timestamp)
VerifyHeadersInt ==
  /\ pc = "delivery_int"
  /\ LET normalized_headers == NormalizeHeaders(args.headers)
         signature == HeaderGet(normalized_headers, SIGNATURE_HEADER)
         timestamp_str == HeaderGet(normalized_headers, DELIVERY_HEADER)
         timestamp == PyInt(timestamp_str.val)
     IN IF ~timestamp.ok
        THEN /\ RaiseEarly("WebhookVerificationError", MsgDelivery, <<>>)
             /\ UNCHANGED args
        ELSE /\ args' = [args EXCEPT !.signature = signature.val,
                                     !.timestamp = SomeInt(timestamp.val)]
             /\ pc' = AfterHeaders("delivery_int")
             /\ UNCHANGED result
  /\ UNCHANGED <<webhook, now, locals, suspended, emailVars>>

\* Webhook.verify_signature(payload, signature, secret, timestamp, tolerance):
\* builds a verifier that lives for the call and enters its verify.  The model
\* keeps that verifier in the variable webhook, so the static method is called
\* while no other verifier is built.
VerifySignature(payload, signature, secret, timestamp, tolerance) ==
  /\ pc = "idle"
  /\ ~webhook.built
  /\ args' = [NoArgs EXCEPT !.call = "verify_signature", !.payload = payload,
                            !.signature = signature, !.timestamp = timestamp,
                            !.secret = secret, !.tolerance = tolerance]
  /\ locals' = NoLocals
  /\ IF EmptySecret(secret)
     THEN /\ RaiseEarly("ValueError", MsgSecret, <<>>)
          /\ UNCHANGED webhook
     ELSE /\ webhook' = [built |-> TRUE, secret |-> secret,
                         tolerance |-> ToleranceArgument(tolerance)]
          /\ result' = NoResult
          /\ pc' = "parse"
  /\ UNCHANGED <<now, suspended, emailVars>>

\* The caller has the outcome of a call that ended outside verify.
CallEnded ==
  /\ pc = "ended"
  /\ pc' = "idle"
  /\ args' = NoArgs
  /\ locals' = NoLocals
  /\ result' = NoResult
  /\ UNCHANGED <<webhook, now, suspended, emailVars>>

\* handle_webhook(payload, signature, timestamp) of the examples: the header
\* values go to verify as they were read, the timestamp as a str.
HandleWebhook(payload, signature, timestamp) ==
  /\ pc = "idle"
  /\ webhook.built
  /\ args' = [NoArgs EXCEPT !.call = "handle_webhook", !.payload = payload,
                            !.signature = signature,
                            !.timestamp = StrObject(timestamp)]
  /\ locals' = NoLocals
  /\ result' = NoResult
  /\ pc' = "parse"
  /\ UNCHANGED <<webhook, now, suspended, emailVars>>

\* A caller that is not in a call makes one, with any of the arguments above;
\* a call in progress takes its next step; the clock advances.
Next ==
  \/ Tick
  \/ pc = "idle" /\ \E secret \in Secrets \cup {<<>>}, tolerance \in Tolerances :
       WebhookInit(secret, tolerance)
  \/ pc = "idle" /\ \E payload \in Payloads, signature \in Signatures,
                        timestamp \in Timestamps :
       Verify(payload, signature, timestamp)
  \/ pc = "idle" /\ \E headers \in Headers, payload \in Payloads :
       VerifyHeaders(headers, payload)
  \/ pc = "idle" /\ \E payload \in Payloads, signature \in StaticSignatures,
                        secret \in StaticSecrets, timestamp \in StaticTimestamps,
                        tolerance \in Tolerances :
       VerifySignature(payload, signature, secret, timestamp, tolerance)
  \/ pc = "idle" /\ \E payload \in Payloads, signature \in HeaderSignatures,
                        timestamp \in HandlerTimestamps :
       HandleWebhook(payload, signature, timestamp)
  \/ VerifyHeadersSignature
  \/ VerifyHeadersDelivery
  \/ VerifyHeadersInt
  \/ VerifyParse
  \/ VerifyCross
  \/ VerifyValidate
  \/ VerifyCompare
  \/ VerifyDecode
  \/ VerifyDone
  \/ CallEnded

Spec == Init /\ [][Next]_vars

\* ------------------------------------------- two callers, one verifier

\* The calls two callers make on a shared verifier built with the secret "k".
SharedPayloads == {<<"{", "}">>}

SharedSignatures ==
  { SignedHeader(<<"k">>, 1, <<"{", "}">>),
    SignedHeader(<<"k">>, 2, <<"{", "}">>),
    <<"g">> }

SharedTimestamps == {NoInt, SomeInt(1)}

SharedHeaders ==
  { << <<SIGNATURE_HEADER, SignedHeader(<<"k">>, 1, <<"{", "}">>)>>,
       <<DELIVERY_HEADER, <<"1">>>> >>,
    << <<SIGNATURE_HEADER, SignedHeader(<<"k">>, 2, <<"{", "}">>)>>,
       <<DELIVERY_HEADER, <<"x">>>> >> }

\* A bug: the locals of verify are kept in one place for all calls (on the
\* verifier, say), so a resumed call finds those of the call that ran last.
FrameLocalsShared(saved, running) == running

\* The locals a resumed call finds: its own, as it left them; every call of
\* verify has its own parsed, signature_timestamp and expected_signature.
FrameLocals(saved, running) == saved

\* The interpreter suspends the running call and resumes the other caller,
\* between any two steps.
Switch ==
  /\ suspended' = [pc |-> pc, args |-> args, locals |-> locals, result |-> result]
  /\ pc' = suspended.pc
  /\ args' = suspended.args
  /\ locals' = FrameLocals(suspended.locals, locals)
  /\ result' = suspended.result
  /\ UNCHANGED <<webhook, now, emailVars>>

InitShared ==
  /\ webhook \in {[built |-> TRUE, secret |-> <<"k">>, tolerance |-> n] :
                    n \in 0..MaxTolerance}
  /\ now \in Times
  /\ pc = "idle"
  /\ args = NoArgs
  /\ locals = NoLocals
  /\ result = NoResult
  /\ suspended = NoFrame
  /\ EmailInit

NextShared ==
  \/ Tick
  \/ pc = "idle" /\ \E payload \in SharedPayloads, signature \in SharedSignatures,
                        timestamp \in SharedTimestamps :
       Verify(payload, signature, timestamp)
  \/ pc = "idle" /\ \E headers \in SharedHeaders, payload \in SharedPayloads :
       VerifyHeaders(headers, payload)
  \/ VerifyHeadersSignature
  \/ VerifyHeadersDelivery
  \/ VerifyHeadersInt
  \/ VerifyParse
  \/ VerifyCross
  \/ VerifyValidate
  \/ VerifyCompare
  \/ VerifyDecode
  \/ VerifyDone
  \/ CallEnded
  \/ Switch

SpecShared == InitShared /\ [][NextShared]_vars

\* ------------------------------------------------- http client responses

\* What the transport gives for one request: a timeout, or a response with a
\* status code and a body.  A body is JSON text of some type, or not JSON.
JsonBody(type, value) == [valid |-> TRUE, type |-> type, value |-> value]

NotJsonBody == [valid |-> FALSE, type |-> "", value |-> EmptyDict]

\* None, as the response_body of an error whose body was not JSON.
NoneBody == [valid |-> TRUE, type |-> "NoneType", value |-> EmptyDict]

Bodies ==
  { JsonBody("dict", [message_id |-> "m1", status |-> "pending"]),
    JsonBody("dict", [error |-> "DailyLimitExceeded"]),
    JsonBody("list", <<>>),
    NotJsonBody }

StatusCodes == {200, 201, 302, 400, 422, 500}

TimedOut == [timeout |-> TRUE, status_code |-> 0, body |-> NotJsonBody]

Responses ==
  {TimedOut} \cup
  { [timeout |-> FALSE, status_code |-> s, body |-> b] : s \in StatusCodes, b \in Bodies }

\* httpx.Response.is_success: a 2xx status.
IsSuccess(status_code) == 200 <= status_code /\ status_code <= 299

\* response_body.get(key, default) if isinstance(response_body, dict) else default
GetOrDefault(response_body, key, default) ==
  IF response_body.type = "dict" /\ key \in DOMAIN response_body.value
  THEN response_body.value[key]
  ELSE default

\* What a call of the client gives: the value returned, or the exception
\* raised with its status_code, error_type and response_body attributes.
HttpReturned(value) ==
  [kind |-> "return", value |-> value, exc |-> "", status_code |-> 0,
   error_type |-> "", response_body |-> NoneBody]

HttpRaised(exc, status_code, error_type, response_body) ==
  [kind |-> "raise", value |-> NoneBody, exc |-> exc, status_code |-> status_code,
   error_type |-> error_type, response_body |-> response_body]

HandleResponseAnyStatus(response) ==
  IF IsSuccess(response.status_code) /\ response.body.valid
  THEN HttpReturned(response.body)
  ELSE HttpRaised("HttpRequestError", response.status_code, "",
                  IF response.body.valid THEN response.body ELSE NoneBody)

\* LettermintClient._handle_response.
HandleResponse(response) ==
  IF IsSuccess(response.status_code)
  THEN IF response.body.valid
       THEN HttpReturned(response.body)
       ELSE HttpRaised("JSONDecodeError", 0, "", NoneBody)
  ELSE LET response_body == IF response.body.valid THEN response.body ELSE NoneBody
       IN IF response.status_code = 422
          THEN HttpRaised("ValidationError", 422,
                          GetOrDefault(response_body, "error", "ValidationError"),
                          response_body)
          ELSE IF response.status_code = 400
          THEN HttpRaised("ClientError", 400, "", response_body)
          ELSE HttpRaised("HttpRequestError", response.status_code, "", response_body)

\* AsyncLettermintClient._handle_response.
AsyncHandleResponse(response) ==
  IF IsSuccess(response.status_code)
  THEN IF response.body.valid
       THEN HttpReturned(response.body)
       ELSE HttpRaised("JSONDecodeError", 0, "", NoneBody)
  ELSE LET response_body == IF response.body.valid THEN response.body ELSE NoneBody
       IN IF response.status_code = 422
          THEN HttpRaised("ValidationError", 422,
                          GetOrDefault(response_body, "error", "ValidationError"),
                          response_body)
          ELSE IF response.status_code = 400
          THEN HttpRaised("ClientError", 400, "", response_body)
          ELSE HttpRaised("HttpRequestError", response.status_code, "", response_body)

\* LettermintClient.post and AsyncLettermintClient.post, given what the
\* transport did with the request: httpx.TimeoutException becomes the SDK's
\* TimeoutError, a response goes through _handle_response.
Post(async, response) ==
  IF response.timeout
  THEN HttpRaised("TimeoutError", 0, "", NoneBody)
  ELSE IF async THEN AsyncHandleResponse(response) ELSE HandleResponse(response)

\* --------------------------------------------------------- email endpoint

\* The builder calls one chain makes before its send, at most.
MaxCalls == 2

\* The setters that store their argument under one key of the payload; those
\* that take *emails store list(emails).
ReplaceMethods ==
  {"from_", "to", "cc", "bcc", "reply_to", "subject", "route", "tag", "headers",
   "metadata"}

ListMethods == {"to", "cc", "bcc", "reply_to"}

\* html and text, which store their argument unless it is None.
OptionalMethods == {"html", "text"}

PayloadKey(method) == IF method = "from_" THEN "from" ELSE method

\* The setters each chain calls: the first chain any of them, the second one.
MethodsOf(c) == IF c = 1 THEN ReplaceMethods ELSE {"from_"}

\* Whether each chain gives attach a content_id.
ContentIdsOf(c) == IF c = 1 THEN BOOLEAN ELSE {FALSE}

\* The argument chain c gives in its n-th builder call: no two calls give the
\* same one.
Argument(c, n) == <<c, n>>

\* self._payload[key] = value
Store(payload, method, argument) ==
  SetItem(payload, PayloadKey(method),
          IF method \in ListMethods THEN <<argument>> ELSE argument)

\* if value is not None: self._payload[key] = value
StoreOptional(payload, method, given, argument) ==
  IF given THEN SetItem(payload, method, argument) ELSE payload

\* The dict attach builds: content_id is a key of it only when one was given.
Attachment(filename, content, content_id) ==
  IF content_id.some
  THEN [filename |-> filename, content |-> content, content_id |-> content_id.val]
  ELSE [filename |-> filename, content |-> content]

\* if "attachments" not in self._payload: self._payload["attachments"] = []
\* self._payload["attachments"].append(attachment)
Attached(payload, attachment) ==
  SetItem(payload, "attachments",
          Append(IF "attachments" \in DOMAIN payload THEN payload["attachments"]
                 ELSE <<>>,
                 attachment))

\* _reset: self._payload = {}; self._idempotency_key = None
ResetKeepsKey(endpoint) == [endpoint EXCEPT !.payload = EmptyDict]

Reset(endpoint) ==
  [endpoint EXCEPT !.payload = EmptyDict, !.idempotency_key = NoStr]

\* The email property of Lettermint and AsyncLettermint: the endpoint is made
\* at the first access and the same one is given at every later access.
EmailProperty(email) == IF ~email.created THEN NewEndpoint ELSE email

\* headers of send: {"Idempotency-Key": key} when a key is set, else None.
SendHeaders(idempotency_key) ==
  IF idempotency_key.some
  THEN [some |-> TRUE, val |-> SetItem(EmptyDict, "Idempotency-Key", idempotency_key.val)]
  ELSE NoHeaders

\* Lettermint(api_token) or AsyncLettermint(api_token).
LettermintInit(async) ==
  /\ ~client.built
  /\ client' = [built |-> TRUE, async |-> async, email |-> NoEndpoint]
  /\ UNCHANGED <<chains, active, webhookVars>>

\* A chain begins with client.email, when no other chain is running.
Email(c) ==
  /\ client.built
  /\ active = 0
  /\ chains[c].pc = "idle"
  /\ client' = [client EXCEPT !.email = EmailProperty(@)]
  /\ chains' = [chains EXCEPT ![c].pc = "build"]
  /\ active' = c
  /\ UNCHANGED webhookVars

\* Chain c may make one more builder call.
Building(c) ==
  /\ active = c
  /\ chains[c].pc = "build"
  /\ chains[c].calls < MaxCalls

\* from_, to, cc, bcc, reply_to, subject, route, tag, headers, metadata.
Set(c, method) ==
  /\ Building(c)
  /\ LET argument == Argument(c, chains[c].calls + 1)
     IN /\ client' = [client EXCEPT !.email.payload = Store(@, method, argument)]
        /\ chains' = [chains EXCEPT ![c].calls = @ + 1,
                                    ![c].own_payload = Store(@, method, argument)]
  /\ UNCHANGED <<active, webhookVars>>

\* html(html) and text(text).
SetOptional(c, method, given) ==
  /\ Building(c)
  /\ LET argument == Argument(c, chains[c].calls + 1)
     IN /\ client' = [client EXCEPT
                        !.email.payload = StoreOptional(@, method, given, argument)]
        /\ chains' = [chains EXCEPT
                        ![c].calls = @ + 1,
                        ![c].own_payload = StoreOptional(@, method, given, argument)]
  /\ UNCHANGED <<active, webhookVars>>

\* attach(filename, content, content_id).
Attach(c, with_content_id) ==
  /\ Building(c)
  /\ LET argument == Argument(c, chains[c].calls + 1)
         attachment ==
           Attachment(argument, argument,
                      IF with_content_id THEN SomeStr(argument) ELSE NoStr)
     IN /\ client' = [client EXCEPT !.email.payload = Attached(@, attachment)]
        /\ chains' = [chains EXCEPT ![c].calls = @ + 1,
                                    ![c].own_payload = Attached(@, attachment)]
  /\ UNCHANGED <<active, webhookVars>>

\* idempotency_key(key).
IdempotencyKey(c) ==
  /\ Building(c)
  /\ LET argument == Argument(c, chains[c].calls + 1)
     IN /\ client' = [client EXCEPT !.email.idempotency_key = SomeStr(argument)]
        /\ chains' = [chains EXCEPT ![c].calls = @ + 1,
                                    ![c].own_key = SomeStr(argument)]
  /\ UNCHANGED <<active, webhookVars>>

\* send, up to the request: the headers are made from the key, and the client
\* posts the payload as it is now.  httpx encodes the body when it builds the
\* request, before the call waits for the network.
Send(c) ==
  /\ active = c
  /\ chains[c].pc = "build"
  /\ chains' = [chains EXCEPT
                  ![c].pc = "post",
                  ![c].request = [path |-> <<"/", "s", "e", "n", "d">>,
                                  json |-> client.email.payload,
                                  headers |-> SendHeaders(client.email.idempotency_key)]]
  /\ UNCHANGED <<client, active, webhookVars>>

\* The request has left and send waits for the answer: on AsyncLettermint the
\* chain is suspended at this await and another chain may run, on Lettermint
\* the chain keeps running.
Await(c) ==
  /\ active = c
  /\ chains[c].pc = "post"
  /\ chains' = [chains EXCEPT ![c] = [NoChain EXCEPT !.pc = "await",
                                                     !.calls = chains[c].calls]]
  /\ active' = IF client.async THEN 0 ELSE c
  /\ UNCHANGED <<client, webhookVars>>

\* send, from the answer of the transport on: post returns or raises, and the
\* finally clause resets the endpoint either way.
Respond(c, response) ==
  /\ chains[c].pc = "await"
  /\ active = IF client.async THEN 0 ELSE c
  /\ chains' = [chains EXCEPT ![c].pc = "done",
                              ![c].answer = response,
                              ![c].response = Post(client.async, response)]
  /\ client' = [client EXCEPT !.email = Reset(@)]
  /\ active' = c
  /\ UNCHANGED webhookVars

\* The chain has what send gave it and ends.
ChainEnd(c) ==
  /\ active = c
  /\ chains[c].pc = "done"
  /\ chains' = [chains EXCEPT ![c] = [NoChain EXCEPT !.pc = "ended"]]
  /\ active' = 0
  /\ UNCHANGED <<client, webhookVars>>

InitEmail ==
  /\ webhook = NoWebhook
  /\ now = 0
  /\ pc = "idle"
  /\ args = NoArgs
  /\ locals = NoLocals
  /\ result = NoResult
  /\ suspended = NoFrame
  /\ EmailInit

NextEmail ==
  \/ \E async \in BOOLEAN : LettermintInit(async)
  \/ \E c \in Chains : Email(c)
  \/ \E c \in Chains : \E method \in MethodsOf(c) : Set(c, method)
  \/ \E method \in OptionalMethods, given \in BOOLEAN : SetOptional(1, method, given)
  \/ \E c \in Chains : \E with_content_id \in ContentIdsOf(c) :
       Attach(c, with_content_id)
  \/ \E c \in Chains : IdempotencyKey(c)
  \/ \E c \in Chains : Send(c)
  \/ \E c \in Chains : Await(c)
  \/ \E c \in Chains, response \in Responses : Respond(c, response)
  \/ \E c \in Chains : ChainEnd(c)

SpecEmail == InitEmail /\ [][NextEmail]_vars

\* -------------------------------------------------------------- claims

\* What the header of the call in progress parses to.
Parsed == ParseSignature(args.signature)

\* The call has ended with exception e and message m.
Failed(e, m) ==
  pc = "done" /\ result.kind = "raise" /\ result.exc = e /\ result.msg = m

\* The header parses and the timestamp argument is omitted or equal to its t.
CrossOk ==
  Parsed.ok /\ ~TimestampDiffers(args.timestamp, Parsed.timestamp)

\* The header parses and the timestamp argument is given and differs from its t.
CrossMismatch ==
  Parsed.ok /\ TimestampDiffers(args.timestamp, Parsed.timestamp)

\* |now - t| for the clock value the call read.
Age ==
  IF locals.current_time.val >= Parsed.timestamp
  THEN locals.current_time.val - Parsed.timestamp
  ELSE Parsed.timestamp - locals.current_time.val

\* The call read the clock and found t inside the tolerance window.
Fresh == locals.current_time.some /\ Age <= webhook.tolerance

\* The call read the clock and found t outside the tolerance window.
Stale == locals.current_time.some /\ Age > webhook.tolerance

\* The header's v1 is the digest of "{t}.{payload}" under the verifier's secret.
DigestMatches ==
  Parsed.signature = SenderDigest(webhook.secret, Parsed.timestamp, args.payload)

\* The header of the call is the one the sender makes with this secret for
\* this payload at some time.
SignedWith(secret, payload) ==
  \E ts \in Times : args.signature = SignedHeader(secret, ts, payload)

\* C1: whenever verify returns a value, the header gave an integer t and a v1,
\* the timestamp argument was omitted or equal to t, the clock value read was
\* within the tolerance of t, v1 is the lowercase-hex HMAC-SHA256 of
\* "{t}.{payload}" under the verifier's secret, and the value returned is the
\* payload decoded as JSON.
C1_ReturnOnlyAfterAllChecks ==
  (pc = "done" /\ result.kind = "return") =>
    /\ Parsed.ok
    /\ ~TimestampDiffers(args.timestamp, Parsed.timestamp)
    /\ locals.current_time.some
    /\ Age <= webhook.tolerance
    /\ DigestMatches
    /\ JsonLoads(args.payload).ok
    /\ result.value = JsonLoads(args.payload).value

\* A call that was given a timestamp argument has returned a value.
C1_Witness ==
  pc = "done" /\ result.kind = "return" /\ args.timestamp.some

\* C2 as stated: a header signed with the verifier's secret for the payload of
\* the call, with t within tolerance of the clock, makes verify return a value,
\* whatever the payload string is.
C2_AnyPayloadVerifies ==
  (pc = "done" /\ SignedWith(webhook.secret, args.payload) /\ CrossOk /\ Fresh)
    => result.kind = "return"

\* C2 amended: a header signed with the verifier's secret for the payload of
\* the call always reaches the clock read, and with t within tolerance of the
\* clock and a payload that is valid JSON verify returns the decoded payload.
C2_RoundTrip ==
  (pc = "done" /\ SignedWith(webhook.secret, args.payload) /\ CrossOk) =>
    /\ locals.current_time.some
    /\ (Fresh /\ JsonLoads(args.payload).ok)
         => result = Returned(JsonLoads(args.payload).value)

\* A signed, fresh JSON payload has been verified by the verifier whose secret
\* ends in U+0000.
C2_Witness ==
  /\ pc = "done"
  /\ SignedWith(webhook.secret, args.payload)
  /\ webhook.secret = <<"k", "NUL">>
  /\ Fresh
  /\ result.kind = "return"

\* C3: when the header was made by signing a payload P with the verifier's
\* secret at a fresh t, verify of any other payload with that header fails with
\* InvalidSignatureError, whether or not the other payload is JSON.
C3_TamperSensitivity ==
  (/\ pc = "done"
   /\ \E p \in Payloads : p # args.payload /\ SignedWith(webhook.secret, p)
   /\ CrossOk)
    => /\ locals.current_time.some
       /\ Fresh => Failed("InvalidSignatureError", MsgSignature)

\* A fresh header signed for another payload has been refused although the
\* payload of the call is valid JSON.
C3_Witness ==
  /\ Failed("InvalidSignatureError", MsgSignature)
  /\ \E p \in Payloads : p # args.payload /\ SignedWith(webhook.secret, p)
  /\ JsonLoads(args.payload).ok
  /\ Fresh

\* s without the U+0000 characters at its end.
RECURSIVE StripNul(_)
StripNul(s) ==
  IF s # <<>> /\ s[Len(s)] = "NUL" THEN StripNul(SubSeq(s, 1, Len(s) - 1)) ELSE s

\* C4 as stated: a fresh header signed with a secret different from the
\* verifier's always fails with InvalidSignatureError.
C4_WrongKeyRejected ==
  (/\ pc = "done"
   /\ \E s1 \in SignSecrets : s1 # webhook.secret /\ SignedWith(s1, args.payload)
   /\ CrossOk
   /\ Fresh)
    => Failed("InvalidSignatureError", MsgSignature)

\* C4 amended: a fresh header signed with a secret that differs from the
\* verifier's by more than U+0000 characters at the end always fails with
\* InvalidSignatureError, for JSON and non-JSON payloads alike.
C4_WrongKeyBlockRejected ==
  (/\ pc = "done"
   /\ \E s1 \in SignSecrets :
        StripNul(s1) # StripNul(webhook.secret) /\ SignedWith(s1, args.payload)
   /\ CrossOk)
    => /\ locals.current_time.some
       /\ Fresh => Failed("InvalidSignatureError", MsgSignature)

\* A fresh header signed with another key for a non-JSON payload has been
\* refused as an invalid signature.
C4_Witness ==
  /\ Failed("InvalidSignatureError", MsgSignature)
  /\ SignedWith(<<"j">>, args.payload)
  /\ ~JsonLoads(args.payload).ok
  /\ Fresh

\* C5: the payload is decoded only after the signature comparison succeeded; a
\* correctly signed, fresh payload that is not JSON fails with JsonDecodeError,
\* and a payload that is not JSON whose v1 does not match fails with
\* InvalidSignatureError.
C5_DecodeAfterAuth ==
  /\ pc = "decode" => (CrossOk /\ Fresh /\ DigestMatches)
  /\ (pc = "done" /\ CrossOk /\ Fresh /\ ~JsonLoads(args.payload).ok)
       => IF DigestMatches THEN Failed("JsonDecodeError", MsgDecode)
          ELSE Failed("InvalidSignatureError", MsgSignature)

\* The part of C5 that is about the order alone: the decoder is reached only
\* with a matching digest, a call that raised JsonDecodeError was
\* authenticated, and an authenticated payload that is not JSON raises it.
C5_DecoderOnlyAfterAuth ==
  /\ pc = "decode" => (CrossOk /\ Fresh /\ DigestMatches)
  /\ Failed("JsonDecodeError", MsgDecode) => (CrossOk /\ Fresh /\ DigestMatches)
  /\ (pc = "done" /\ CrossOk /\ Fresh /\ DigestMatches /\ ~JsonLoads(args.payload).ok)
       => Failed("JsonDecodeError", MsgDecode)

\* C6: with the cross-check passed, a header whose t is outside the tolerance
\* window fails with TimestampToleranceError, carrying the difference and the
\* tolerance, whether its v1 is the correct digest or not; a call that fails
\* with InvalidSignatureError had a t inside the window.
C6_FreshnessBeforeSignature ==
  /\ (pc = "done" /\ CrossOk) =>
       /\ locals.current_time.some
       /\ Stale => /\ Failed("TimestampToleranceError", MsgTolerance)
                   /\ result.args = <<Age, webhook.tolerance>>
  /\ (pc = "done" /\ result.kind = "raise" /\ result.exc = "InvalidSignatureError")
       => Fresh

\* A correctly signed header outside the window has been refused for its
\* timestamp.
C6_Witness ==
  /\ Failed("TimestampToleranceError", MsgTolerance)
  /\ SignedWith(webhook.secret, args.payload)
  /\ DigestMatches
  /\ Stale

\* The clock value a call's outcome rests on: the one it read, or the present
\* one when it ended before reading the clock.
ClockRead == IF locals.current_time.some THEN locals.current_time.val ELSE now

\* C7: a timestamp argument equal to the header's t gives the outcome verify
\* has without the argument; one that differs from t fails with the timestamp
\* mismatch error before the clock is read and the digests are compared.
C7_CrossCheck ==
  /\ (pc = "done" /\ ~CrossMismatch) =>
       result = VerifyResult(webhook.secret, webhook.tolerance, args.payload,
                             args.signature, NoInt, ClockRead)
  /\ (pc \in {"validate", "compare", "decode"}) => CrossOk
  /\ (pc = "done" /\ CrossMismatch) =>
       /\ Failed("WebhookVerificationError", MsgMismatch)
       /\ ~locals.current_time.some

\* A call with a differing timestamp argument, a t outside the window and a
\* wrong v1 has failed with the mismatch error.
C7_Witness ==
  /\ Failed("WebhookVerificationError", MsgMismatch)
  /\ CrossMismatch
  /\ ~DigestMatches
  /\ now - Parsed.timestamp > webhook.tolerance

\* C8: with the cross-check passed, the freshness check fails exactly when the
\* clock is more than the tolerance after t or more than the tolerance before
\* t: t = now - T and t = now + T pass, t = now - T - 1 and t = now + T + 1 fail
\* with TimestampToleranceError.
C8_ToleranceBoundary ==
  (pc = "done" /\ CrossOk) =>
    /\ locals.current_time.some
    /\ Failed("TimestampToleranceError", MsgTolerance)
         <=> \/ locals.current_time.val - Parsed.timestamp > webhook.tolerance
             \/ Parsed.timestamp - locals.current_time.val > webhook.tolerance

\* A correctly signed header with t = now + T, T > 0, has been accepted.
C8_Witness ==
  /\ pc = "done"
  /\ result.kind = "return"
  /\ webhook.tolerance > 0
  /\ locals.current_time.some
  /\ Parsed.timestamp - locals.current_time.val = webhook.tolerance

\* The header has a part "t=<value>" whose value int() accepts.
HasIntegerT(signature) ==
  LET parts == Split(signature, ",")
  IN \E i \in 1..Len(parts) :
       LET key_value == SplitOnce(parts[i], "=")
       IN Len(key_value) = 2 /\ key_value[1] = <<"t">> /\ PyInt(key_value[2]).ok

\* The header has a part "v1=<value>".
HasV1(signature) ==
  LET parts == Split(signature, ",")
  IN \E i \in 1..Len(parts) :
       LET key_value == SplitOnce(parts[i], "=")
       IN Len(key_value) = 2 /\ key_value[1] = <<"v", "1">>

\* C9: a header with no t part whose value is an integer, or with no v1 part,
\* makes verify fail with the "Invalid signature format" error, whatever the
\* payload, the timestamp argument and the clock are.
C9_MalformedSignature ==
  (/\ pc = "done"
   /\ ~HasIntegerT(args.signature) \/ ~HasV1(args.signature))
    => Failed("WebhookVerificationError", MsgFormat)

\* A header with a t that is not an integer has been refused, in a call with a
\* timestamp argument.
C9_Witness ==
  /\ Failed("WebhookVerificationError", MsgFormat)
  /\ args.signature = <<"t", "=", "x", ",", "v", "1", "=", "a", "b">>
  /\ args.timestamp.some

\* C10: with the cross-check passed and t inside the window, any v1 that
\* differs from the computed digest makes verify fail with
\* InvalidSignatureError.
C10_WrongDigestIsInvalidSignature ==
  (pc = "done" /\ CrossOk /\ Fresh /\ ~DigestMatches)
    => Failed("InvalidSignatureError", MsgSignature)

\* C11: a constructor call with the empty secret raises ValueError and builds
\* no verifier, and one with any other secret builds the verifier with that
\* secret, so no verifier has an empty secret; a static call with the empty
\* secret ends with ValueError without entering verify (nothing is parsed),
\* and one with any other secret does not raise ValueError.
C11_EmptySecret ==
  /\ webhook.built => webhook.secret # <<>>
  /\ (pc = "ended" /\ args.call = "__init__") =>
       IF args.secret = <<>>
       THEN result = Raised("ValueError", MsgSecret, <<>>) /\ ~webhook.built
       ELSE result = NoResult /\ webhook.built /\ webhook.secret = args.secret
  /\ args.call = "verify_signature" =>
       IF args.secret = <<>>
       THEN /\ pc = "ended"
            /\ result = Raised("ValueError", MsgSecret, <<>>)
            /\ ~webhook.built
            /\ locals = NoLocals
       ELSE /\ pc # "ended"
            /\ webhook.built
            /\ webhook.secret = args.secret
            /\ ~(result.kind = "raise" /\ result.exc = "ValueError")

\* A static call with the empty secret and a correctly signed header has
\* ended with ValueError.
C11_Witness ==
  /\ pc = "ended"
  /\ args.call = "verify_signature"
  /\ args.secret = <<>>
  /\ args.signature = SignedHeader(<<"k">>, now, <<"{", "}">>)
  /\ result.exc = "ValueError"

\* The mapping has an item whose key is the name, letter case aside.
HasHeader(headers, name) ==
  \E i \in 1..Len(headers) : Upper(headers[i][1]) = Upper(name)

\* The call in progress is one of verify_headers that has not entered verify:
\* nothing is parsed, the clock is not read, the payload is not decoded.
BeforeVerify ==
  /\ pc \in {"missing_signature", "missing_delivery", "delivery_int", "ended"}
  /\ locals = NoLocals
  /\ result.kind # "return"

\* C12: a verify_headers call whose mapping has no signature header ends with
\* WebhookVerificationError "Missing signature header: X-Lettermint-Signature",
\* one whose mapping has the signature header and no delivery header ends with
\* WebhookVerificationError "Missing delivery header: X-Lettermint-Delivery",
\* and neither call enters verify: no header is parsed, the clock is not read,
\* the payload is not decoded.
C12_MissingHeader ==
  args.call = "verify_headers" =>
    /\ ~HasHeader(args.headers, SIGNATURE_HEADER) =>
         /\ BeforeVerify
         /\ pc \in {"missing_signature", "ended"}
         /\ pc = "ended" =>
              result = Raised("WebhookVerificationError",
                              "Missing signature header: X-Lettermint-Signature", <<>>)
    /\ (HasHeader(args.headers, SIGNATURE_HEADER)
        /\ ~HasHeader(args.headers, DELIVERY_HEADER)) =>
         /\ BeforeVerify
         /\ pc \in {"missing_signature", "missing_delivery", "ended"}
         /\ pc = "ended" =>
              result = Raised("WebhookVerificationError",
                              "Missing delivery header: X-Lettermint-Delivery", <<>>)

\* A call with a correctly signed signature header and no delivery header has
\* ended with the error that names the delivery header.
C12_Witness ==
  /\ pc = "ended"
  /\ args.call = "verify_headers"
  /\ \E i \in 1..Len(args.headers) :
       args.headers[i][2] = SignedHeader(webhook.secret, 1, args.payload)
  /\ ~HasHeader(args.headers, DELIVERY_HEADER)
  /\ result.msg = MsgMissingDelivery

\* The value of a header of the mapping, letter case of its name aside: that
\* of the last item with the name.
HeaderValue(headers, name) ==
  LET at == {i \in 1..Len(headers) : Upper(headers[i][1]) = Upper(name)}
  IN headers[CHOOSE i \in at : \A j \in at : j <= i][2]

\* C13: a verify_headers call whose mapping has both headers ends, when int()
\* refuses the delivery value, with WebhookVerificationError "Invalid timestamp
\* format in X-Lettermint-Delivery header" without entering verify; otherwise
\* it ends as verify(payload, signature value, int(delivery value)) ends, so
\* when the signature header parses and its t differs from the delivery
\* timestamp it ends with the timestamp mismatch error.
C13_HeadersDelegate ==
  (/\ args.call = "verify_headers"
   /\ pc \in {"done", "ended"}
   /\ HasHeader(args.headers, SIGNATURE_HEADER)
   /\ HasHeader(args.headers, DELIVERY_HEADER)) =>
    LET signature == HeaderValue(args.headers, SIGNATURE_HEADER)
        delivery == PyInt(HeaderValue(args.headers, DELIVERY_HEADER))
    IN IF ~delivery.ok
       THEN /\ pc = "ended"
            /\ BeforeVerify
            /\ result = Raised("WebhookVerificationError",
                 "Invalid timestamp format in X-Lettermint-Delivery header", <<>>)
       ELSE /\ pc = "done"
            /\ result = VerifyResult(webhook.secret, webhook.tolerance, args.payload,
                                     signature, SomeInt(delivery.val), ClockRead)
            /\ (/\ ParseSignature(signature).ok
                /\ ParseSignature(signature).timestamp # delivery.val)
                 => Failed("WebhookVerificationError", MsgMismatch)

\* A verify_headers call with a correctly signed signature header and a
\* delivery header with another timestamp has ended with the mismatch error.
C13_Witness ==
  /\ args.call = "verify_headers"
  /\ Failed("WebhookVerificationError", MsgMismatch)
  /\ SignedWith(webhook.secret, args.payload)
  /\ PyInt(HeaderValue(args.headers, DELIVERY_HEADER)).val # Parsed.timestamp

\* Two header mappings that differ at most in the letter case of their names.
SameButCase(headers, other) ==
  /\ Len(headers) = Len(other)
  /\ \A i \in 1..Len(headers) : headers[i][2] = other[i][2]
  /\ \A i \in 1..Len(headers) : Upper(headers[i][1]) = Upper(other[i][1])

\* C14: a verify_headers call ends as verify_headers ends, with the same
\* verifier, payload and clock value, for every mapping that differs from its
\* mapping only in the letter case of the header names: the same value
\* returned, or the same error with the same message.
C14_HeaderCase ==
  (args.call = "verify_headers" /\ pc \in {"done", "ended"}) =>
    \A headers \in Headers :
      SameButCase(args.headers, headers) =>
        result = VerifyHeadersResult(webhook.secret, webhook.tolerance, headers,
                                     args.payload, ClockRead)

\* A call whose mapping names both headers in capitals has returned a value.
C14_Witness ==
  /\ args.call = "verify_headers"
  /\ pc = "done"
  /\ result.kind = "return"
  /\ args.headers[1][1] = Upper(SIGNATURE_HEADER)
  /\ args.headers[2][1] = Upper(DELIVERY_HEADER)

\* C15: a call of the static method ends as constructing a verifier with its
\* secret and tolerance (300 when the tolerance is omitted) and calling
\* verify(payload, signature, timestamp) on it ends: with the ValueError of the
\* constructor for the empty secret, and otherwise with the value or the error
\* of that verify.
C15_StaticDelegates ==
  (args.call = "verify_signature" /\ pc \in {"done", "ended"}) =>
    result = IF args.secret = <<>>
             THEN Raised("ValueError", MsgSecret, <<>>)
             ELSE VerifyResult(args.secret,
                               IF args.tolerance.some THEN args.tolerance.val ELSE 300,
                               args.payload, args.signature, args.timestamp, ClockRead)

\* A static call with tolerance 0 has refused a correctly signed header for
\* its timestamp.
C15_Witness ==
  /\ args.call = "verify_signature"
  /\ Failed("TimestampToleranceError", MsgTolerance)
  /\ args.tolerance = SomeInt(0)
  /\ SignedWith(args.secret, args.payload)

\* The frame of the call that is running.
Running == [pc |-> pc, args |-> args, locals |-> locals, result |-> result]

\* What the call of a frame gives when it is the only call: verify or
\* verify_headers as a function of its arguments, the verifier and the clock
\* value the call read (any value will do for a call that ended before).
AloneResult(f) ==
  LET current_time ==
        IF f.locals.current_time.some THEN f.locals.current_time.val ELSE now
  IN IF f.args.call = "verify_headers"
     THEN VerifyHeadersResult(webhook.secret, webhook.tolerance, f.args.headers,
                              f.args.payload, current_time)
     ELSE VerifyResult(webhook.secret, webhook.tolerance, f.args.payload,
                       f.args.signature, f.args.timestamp, current_time)

\* A call that has ended has the outcome it has alone, and a call inside
\* verify holds the timestamp and digest parsed from its own header.
FrameOwn(f) ==
  /\ f.pc \in {"done", "ended"} => f.result = AloneResult(f)
  /\ f.pc \in {"cross", "validate", "compare", "decode"} =>
       /\ ParseSignature(f.args.signature).ok
       /\ f.locals.signature_timestamp = ParseSignature(f.args.signature).timestamp
       /\ f.locals.expected_signature = ParseSignature(f.args.signature).signature

\* C16: with two callers on one verifier whose calls of verify and
\* verify_headers are interleaved in any way, step by step, each call ends
\* with the outcome it has alone at the clock value it read, and each call
\* inside verify works on the timestamp and digest of its own header.
C16_Interleaving == FrameOwn(Running) /\ FrameOwn(suspended)

\* One call has returned a value while the other, suspended before its
\* comparison, holds another parsed timestamp.
C16_Witness ==
  /\ pc = "done"
  /\ result.kind = "return"
  /\ suspended.pc = "compare"
  /\ suspended.locals.signature_timestamp # locals.signature_timestamp

\* What the call in progress gives as a function of its arguments, the fields
\* of the verifier it is made on (for the static method, its secret and
\* tolerance arguments) and the clock value it read.
CallResult ==
  CASE args.call \in {"verify", "handle_webhook"} ->
         VerifyResult(webhook.secret, webhook.tolerance, args.payload,
                      args.signature, args.timestamp, ClockRead)
    [] args.call = "verify_headers" ->
         VerifyHeadersResult(webhook.secret, webhook.tolerance, args.headers,
                             args.payload, ClockRead)
    [] args.call = "verify_signature" ->
         IF args.secret = <<>>
         THEN Raised("ValueError", MsgSecret, <<>>)
         ELSE VerifyResult(args.secret,
                           IF args.tolerance.some THEN args.tolerance.val ELSE 300,
                           args.payload, args.signature, args.timestamp, ClockRead)
    [] OTHER -> result

\* C17: no step of a call of verify, verify_headers or verify_signature changes
\* the secret or the tolerance of a verifier (the verifier the static method
\* built goes with the end of its call); when a call ends, after any sequence
\* of earlier calls, its outcome is the function of its arguments, the secret,
\* the tolerance and the clock value read, so the same call at the same clock
\* value ends the same way; and a caller that is not in a call holds nothing
\* of the calls before.
C17_NoStateKept ==
  [][/\ (webhook.built /\ ~(args.call = "verify_signature" /\ pc' = "idle"))
          => webhook' = webhook
     /\ pc \in {"done", "ended"} => result = CallResult
     /\ pc' = "idle" => (args' = NoArgs /\ locals' = NoLocals /\ result' = NoResult)
    ]_vars

\* A verify_headers call on a verifier with tolerance 0 has ended with
\* InvalidSignatureError.
C17_Witness ==
  /\ args.call = "verify_headers"
  /\ Failed("InvalidSignatureError", MsgSignature)
  /\ webhook.tolerance = 0

\* C18: every value verify returns, for a correctly signed, fresh payload that
\* is valid JSON, is a mapping (a JSON object).
C18_ReturnsMapping ==
  (/\ pc = "done"
   /\ result.kind = "return"
   /\ SignedWith(webhook.secret, args.payload)
   /\ Fresh
   /\ JsonLoads(args.payload).ok)
    => result.value.type = "dict"

\* The parts joined with "," between them.
RECURSIVE Join(_)
Join(parts) ==
  IF parts = <<>> THEN <<>>
  ELSE IF Len(parts) = 1 THEN parts[1]
  ELSE parts[1] \o <<",">> \o Join(Tail(parts))

\* A token of the header that has no "=" or whose key is neither t nor v1.
IsJunk(token) ==
  \/ \A i \in 1..Len(token) : token[i] # "="
  \/ SplitOnce(token, "=")[1] \notin {<<"t">>, <<"v", "1">>}

\* The header without its junk tokens.
StripJunk(signature) ==
  Join(SelectSeq(Split(signature, ","), LAMBDA token : ~IsJunk(token)))

\* C19: a call of verify ends as verify ends for the header without its
\* tokens that have no "=" or a key other than t and v1, with the same
\* verifier, payload, timestamp argument and clock value, wherever those
\* tokens stand in the header.
C19_JunkTokensIgnored ==
  pc = "done" =>
    result = VerifyResult(webhook.secret, webhook.tolerance, args.payload,
                          StripJunk(args.signature), args.timestamp, ClockRead)

\* A correctly signed header with a junk token between its t and v1 tokens has
\* been verified.
C19_Witness ==
  /\ pc = "done"
  /\ result.kind = "return"
  /\ \E junk \in JunkTokens :
       args.signature =
         <<"t", "=">> \o IntStr(Parsed.timestamp) \o <<",">> \o junk
           \o <<",", "v", "1", "=">> \o Parsed.signature

\* The tolerance a constructor call or a static call asks for is the
\* tolerance of the verifier built, and 300 when none is asked for.
ToleranceAsAsked ==
  (/\ args.call \in {"__init__", "verify_signature"}
   /\ webhook.built)
    => webhook.tolerance = IF args.tolerance.some THEN args.tolerance.val ELSE 300

\* Tolerances to compare a call with: the largest below the age of its
\* header, the age itself, and the default.
OtherTolerances == {T \in {Age - 1, Age, 300} : T >= 0}

\* C20 as stated: a correctly signed payload of age d is refused with
\* TimestampToleranceError by a verifier with tolerance below d and accepted
\* (verify returns) by one with tolerance at least d, whatever the payload
\* is; the tolerance is the one asked for, 300 by default.
C20_ToleranceAccepts ==
  /\ ToleranceAsAsked
  /\ (pc = "done" /\ SignedWith(webhook.secret, args.payload) /\ CrossOk) =>
       /\ locals.current_time.some
       /\ IF webhook.tolerance < Age
          THEN Failed("TimestampToleranceError", MsgTolerance)
          ELSE result.kind = "return"

\* C20 amended: a correctly signed payload of age d is refused with
\* TimestampToleranceError by a verifier with tolerance below d, whatever the
\* payload is, and is not refused for its timestamp by one with tolerance at
\* least d, which returns the decoded payload when the payload is valid JSON;
\* so for every two tolerances T <= T2, what T accepts T2 accepts.  The
\* tolerance is the one asked for, 300 by default.
C20_ToleranceMonotone ==
  /\ ToleranceAsAsked
  /\ (pc = "done" /\ SignedWith(webhook.secret, args.payload) /\ CrossOk) =>
       /\ locals.current_time.some
       /\ IF webhook.tolerance < Age
          THEN Failed("TimestampToleranceError", MsgTolerance)
          ELSE /\ ~(result.kind = "raise" /\ result.exc = "TimestampToleranceError")
               /\ JsonLoads(args.payload).ok
                    => result = Returned(JsonLoads(args.payload).value)
       /\ \A T \in OtherTolerances :
            LET r == VerifyResult(webhook.secret, T, args.payload, args.signature,
                                  args.timestamp, locals.current_time.val)
            IN IF T < Age
               THEN r = Raised("TimestampToleranceError", MsgTolerance, <<Age, T>>)
               ELSE JsonLoads(args.payload).ok
                      => r = Returned(JsonLoads(args.payload).value)

\* A verifier built without a tolerance has accepted a signed JSON payload
\* that is too old for a verifier with the largest of the small tolerances.
C20_Witness ==
  /\ pc = "done"
  /\ args.call = "verify"
  /\ result.kind = "return"
  /\ webhook.tolerance = 300
  /\ locals.current_time.val - Parsed.timestamp > MaxTolerance

\* C21: a call of verify made as the example handlers make it, with the
\* timestamp header's text as the timestamp argument, for a JSON payload
\* signed with the verifier's secret, with t within the tolerance of the clock
\* and the header text denoting the same number as t, returns a value.
C21_HandlerUsageVerifies ==
  (/\ pc = "done"
   /\ args.call = "handle_webhook"
   /\ SignedWith(webhook.secret, args.payload)
   /\ JsonLoads(args.payload).ok
   /\ Difference(now, Parsed.timestamp) <= webhook.tolerance
   /\ PyInt(args.timestamp.str).ok
   /\ PyInt(args.timestamp.str).val = Parsed.timestamp)
    => result.kind = "return"

\* No send of another chain is waiting for its answer.
NoSendInFlight(c) == \A d \in Chains \ {c} : chains[d].pc # "await"

\* C22: when send has finished, by returning a response or by raising (HTTP
\* error, validation error, client error, timeout), the endpoint's payload is
\* empty and its idempotency key is unset; and a send that begins when every
\* earlier send has finished posts only what was set since: the body and the
\* key of the chain that makes it.
C22_SendResets ==
  \A c \in Chains :
    /\ chains[c].pc = "done" =>
         /\ client.email.payload = EmptyDict
         /\ client.email.idempotency_key = NoStr
    /\ (chains[c].pc = "post" /\ NoSendInFlight(c)) =>
         /\ chains[c].request.json = chains[c].own_payload
         /\ chains[c].request.headers = SendHeaders(chains[c].own_key)

\* A send of a chain that made builder calls has ended with the SDK's
\* TimeoutError, and the endpoint is empty.
C22_Witness ==
  \E c \in Chains :
    /\ chains[c].pc = "done"
    /\ chains[c].calls = MaxCalls
    /\ chains[c].response.exc = "TimeoutError"
    /\ client.email.payload = EmptyDict

\* C23: the body of every POST /send holds exactly the fields the chain that
\* sends it has set: none set by the other chain, and none of its own missing.
C23_ChainsIsolated ==
  \A c \in Chains :
    chains[c].pc = "post" => chains[c].request.json = chains[c].own_payload

\* C24: a POST /send carries an Idempotency-Key header exactly when
\* idempotency_key was called since the send before it, by the chain that
\* makes it, and the header's value is the last key given; a key given for
\* one send is not on a later send.
C24_KeyOnlyOnItsSend ==
  \A c \in Chains :
    chains[c].pc = "post" =>
      /\ chains[c].request.headers.some <=> chains[c].own_key.some
      /\ chains[c].request.headers.some =>
           chains[c].request.headers.val["Idempotency-Key"] = chains[c].own_key.val

\* The attachments of a payload, none when it has no such key.
Attachments(payload) ==
  IF "attachments" \in DOMAIN payload THEN payload["attachments"] ELSE <<>>

\* C26: the body of a POST /send lists the attachments of the attach calls
\* made since the send before it, as many as the calls and in their order,
\* each with content_id only when one was given; and for from_, to, cc, bcc,
\* reply_to, subject, route, tag, headers and metadata it holds the argument of
\* the chain's last call.
C26_AttachAccumulates ==
  \A c \in Chains :
    chains[c].pc = "post" =>
      /\ Attachments(chains[c].request.json) = Attachments(chains[c].own_payload)
      /\ \A method \in ReplaceMethods :
           PayloadKey(method) \in DOMAIN chains[c].own_payload =>
             chains[c].request.json[PayloadKey(method)] =
               chains[c].own_payload[PayloadKey(method)]

\* The "error" field of a body that is a JSON object having one.
HasErrorField(body) ==
  body.valid /\ body.type = "dict" /\ "error" \in DOMAIN body.value

\* C25: what send gave the chain is the class of what the transport did: a
\* timeout is the SDK's TimeoutError; a 2xx status with a JSON body returns
\* the parsed body; 422 is ValidationError with status_code 422 and the body's
\* "error" field as error_type, "ValidationError" when the body is not an
\* object or has no such field; 400 is ClientError with status_code 400; any
\* other status that is not 2xx is HttpRequestError with that status code; and
\* the synchronous and the asynchronous client give the same for the same
\* response.
C25_Classification ==
  \A c \in Chains :
    chains[c].pc = "done" =>
      LET answer == chains[c].answer
          response == chains[c].response
          status_code == answer.status_code
      IN IF answer.timeout
         THEN response.kind = "raise" /\ response.exc = "TimeoutError"
         ELSE /\ (IsSuccess(status_code) /\ answer.body.valid) =>
                   response.kind = "return" /\ response.value = answer.body
              /\ status_code = 422 =>
                   /\ response.kind = "raise"
                   /\ response.exc = "ValidationError"
                   /\ response.status_code = 422
                   /\ response.error_type =
                        IF HasErrorField(answer.body)
                        THEN answer.body.value["error"]
                        ELSE "ValidationError"
              /\ status_code = 400 =>
                   /\ response.kind = "raise"
                   /\ response.exc = "ClientError"
                   /\ response.status_code = 400
              /\ (~IsSuccess(status_code) /\ status_code \notin {400, 422}) =>
                   /\ response.kind = "raise"
                   /\ response.exc = "HttpRequestError"
                   /\ response.status_code = status_code
              /\ response = HandleResponse(answer)
              /\ response = AsyncHandleResponse(answer)

\* A send on the asynchronous client has raised ValidationError with the
\* default error_type for a 422 answer whose body is a JSON list.
C25_Witness ==
  \E c \in Chains :
    /\ chains[c].pc = "done"
    /\ client.async
    /\ chains[c].answer.status_code = 422
    /\ chains[c].answer.body.type = "list"
    /\ chains[c].response.exc = "ValidationError"
    /\ chains[c].response.error_type = "ValidationError"

\* C27: a call of verify reads the clock at most once, and only when the
\* header has been parsed and the cross-check has passed: a value once read
\* stays the call's clock value to its end, a call that failed in parsing or in
\* the cross-check has read none and ends the same whatever the time is, and
\* whether the timestamp is refused is decided with the one value read,
\* whatever the clock shows afterwards.
C27_ClockReadOnce ==
  [][/\ locals.current_time.some =>
          (pc' = "idle" \/ locals'.current_time = locals.current_time)
     /\ (~locals.current_time.some /\ locals'.current_time.some) =>
          (CrossOk /\ locals'.current_time = SomeInt(now))
     /\ pc = "done" =>
          /\ (~Parsed.ok \/ CrossMismatch) =>
               /\ ~locals.current_time.some
               /\ \A t \in Times :
                    result = VerifyResult(webhook.secret, webhook.tolerance,
                                          args.payload, args.signature,
                                          args.timestamp, t)
          /\ locals.current_time.some =>
               (result.exc = "TimestampToleranceError" <=> Age > webhook.tolerance)
    ]_vars

\* A call has ended as stale by the clock value it read, and the clock has
\* moved on since the read.
C27_Witness ==
  /\ pc = "done"
  /\ locals.current_time.some
  /\ now > locals.current_time.val
  /\ result.exc = "TimestampToleranceError"
  /\ Parsed.timestamp > locals.current_time.val
  /\ Parsed.timestamp - now <= webhook.tolerance

\* The tokens of a header, the places of its t tokens whose value int()
\* accepts and of its v1 tokens, and the value of the token at a place.
Tokens(signature) == Split(signature, ",")

IntegerTs(signature) ==
  {i \in 1..Len(Tokens(signature)) :
     LET key_value == SplitOnce(Tokens(signature)[i], "=")
     IN Len(key_value) = 2 /\ key_value[1] = <<"t">> /\ PyInt(key_value[2]).ok}

V1s(signature) ==
  {i \in 1..Len(Tokens(signature)) :
     LET key_value == SplitOnce(Tokens(signature)[i], "=")
     IN Len(key_value) = 2 /\ key_value[1] = <<"v", "1">>}

Last(places) == CHOOSE i \in places : \A j \in places : j <= i

TokenValue(signature, i) == SplitOnce(Tokens(signature)[i], "=")[2]

\* C28: verify takes as t the integer of the last t token whose value is an
\* integer, and as v1 the value of the last v1 token, wherever t tokens with
\* a non-integer value stand; it refuses the format only when the header has
\* no integer t token or no v1 token.
C28_LastTokenWins ==
  pc = "done" =>
    IF IntegerTs(args.signature) = {} \/ V1s(args.signature) = {}
    THEN Failed("WebhookVerificationError", MsgFormat)
    ELSE /\ ~Failed("WebhookVerificationError", MsgFormat)
         /\ locals.signature_timestamp =
              PyInt(TokenValue(args.signature, Last(IntegerTs(args.signature)))).val
         /\ locals.expected_signature =
              TokenValue(args.signature, Last(V1s(args.signature)))

\* The header t=2,t=1,t=x,v1=ab,v1=<digest for 1> has been verified: the last
\* integer t and the last v1 were taken.
C28_Witness ==
  /\ pc = "done"
  /\ result.kind = "return"
  /\ Len(Tokens(args.signature)) = 5
  /\ IntegerTs(args.signature) = {1, 2}
  /\ V1s(args.signature) = {4, 5}
  /\ locals.signature_timestamp = 1

\* The header that carries the same integer t, written in canonical decimal,
\* and the same v1.
CanonicalHeader(signature) ==
  <<"t", "=">> \o IntStr(ParseSignature(signature).timestamp)
    \o <<",", "v", "1", "=">> \o ParseSignature(signature).signature

\* C29: a call of verify whose header has an integer t and a v1 ends as it
\* ends for the header with the same integer in canonical decimal and the same
\* v1, with the same verifier, payload, timestamp argument and clock value: the
\* outcome depends on the integer t, not on the text it was written as.
C29_PreimageFromInteger ==
  (pc = "done" /\ Parsed.ok) =>
    result = VerifyResult(webhook.secret, webhook.tolerance, args.payload,
                          CanonicalHeader(args.signature), args.timestamp,
                          ClockRead)

\* The signed header for timestamp 1 with its t written as 01 has been
\* verified.
C29_Witness ==
  /\ pc = "done"
  /\ result.kind = "return"
  /\ Parsed.timestamp = 1
  /\ args.signature = <<"t", "=", "0", "1", ",", "v", "1", "=">> \o Parsed.signature

\* C30: a verify_headers call that has ended did its checks in the order
\* signature header there, delivery header there, delivery value an integer,
\* then verify: without the signature header the error names the signature
\* header, the delivery header there or not; else without the delivery header
\* the error names the delivery header; else with a delivery value int()
\* refuses the error is the delivery format error, the signature value
\* malformed or not; in these three cases verify was not entered; and only
\* else does a malformed signature value give the signature format error.
C30_HeaderCheckOrder ==
  (pc \in {"done", "ended"} /\ args.call = "verify_headers") =>
    IF ~HasHeader(args.headers, SIGNATURE_HEADER)
    THEN pc = "ended" /\ locals = NoLocals /\ result.msg = MsgMissingSignature
    ELSE IF ~HasHeader(args.headers, DELIVERY_HEADER)
    THEN pc = "ended" /\ locals = NoLocals /\ result.msg = MsgMissingDelivery
    ELSE IF ~PyInt(HeaderValue(args.headers, DELIVERY_HEADER)).ok
    THEN pc = "ended" /\ locals = NoLocals /\ result.msg = MsgDelivery
    ELSE /\ pc = "done"
         /\ ~ParseSignature(HeaderValue(args.headers, SIGNATURE_HEADER)).ok
              => result.msg = MsgFormat

\* A verify_headers call with a signature value without t and v1 and a
\* delivery value that is no integer has ended with the delivery format error.
C30_Witness ==
  /\ pc = "ended"
  /\ args.call = "verify_headers"
  /\ HasHeader(args.headers, SIGNATURE_HEADER)
  /\ HasHeader(args.headers, DELIVERY_HEADER)
  /\ ~ParseSignature(HeaderValue(args.headers, SIGNATURE_HEADER)).ok
  /\ HeaderValue(args.headers, DELIVERY_HEADER) = <<"x">>
  /\ result.exc = "WebhookVerificationError"
  /\ result.msg = MsgDelivery

====
